---- MODULE Spec2Model ----
(***************************************************************************)
(* Change-detection and reconciliation engine of bluebubbles-server.       *)
(*                                                                         *)
(* Modelled from                                                           *)
(*   src/packages/server/src/server/api/v1/interfaces/messageInterface.ts  *)
(*   src/src/main/server/index.ts                                          *)
(*   src/unnamed/part_000 (getCacheName)                                   *)
(* The outgoing message manager (the Reconciliation Queue), the event      *)
(* cache and the listener classes are imported by these files but are not  *)
(* among the sources; they are modelled from sections 4.1, 4.2 and 4.4 of  *)
(* the specification.                                                      *)
(*                                                                         *)
(* Strings whose characters matter (message texts, attachment names) are   *)
(* sequences of one-character strings; identifiers are TLA+ strings.       *)
(***************************************************************************)
EXTENDS Integers, Sequences, FiniteSets, Bags, TLC

VARIABLES
    now,          \* the wall clock, in milliseconds
    cursor,       \* the Poll Cursor of each listener
    nextSweep,    \* the time the queue sweep's timer fires next
    store,        \* the external message store: the rows, store[i].guid = i
    queue,        \* messageManager: the pending Send Requests, oldest first
    calls,        \* one record per send call made so far (the caller's side)
    eventCache,   \* BlueBubblesServer.eventCache, the shared Dedup Cache
    ownCache,     \* the private dedup record of the updated-message listener
    handlers,     \* the Dispatcher handlers suspended at their await (a set)
    sent,         \* what sendNotification handed to the fan-out boundary (a bag)
    emitted,      \* history: the candidates that passed a listener's dedup check
    suppressed,   \* history: the keys the new-message listener suppressed
    lastPoll,     \* how the last poll of each listener ended
    group,        \* a group chat in the store and the listener's snapshot of it
    helper,       \* BlueBubblesHelperService: the handle and the connections
    boot,         \* BlueBubblesServer.start(): where it stands and what it started
    body          \* an attributedBody column value and what the transformer made of it

vars == <<now, cursor, nextSweep, store, queue, calls, eventCache, ownCache,
          handlers, sent, emitted, suppressed, lastPoll, group, helper, boot,
          body>>

---------------------------------------------------------------------------
(* Bounds of the model *)

\* the send calls made in a run
MaxSends == 1
\* the rows written to the store in a run
MaxRows == 1
\* the steps of the clock in a run
MaxTicks == 2
\* the candidates the listeners let pass in a run
MaxEvents == 4
\* the pending requests a matching scenario starts with
MaxPending == 2
MaxChanges == 4
MaxConns == 2
MaxCommands == 2
MaxLines == 2
MaxGroups == 1
MaxValues == 3
\* the rows a change-detection scenario starts with
DedupRows == 2

---------------------------------------------------------------------------
(* Values *)

\* null / undefined; a one-element sequence that is no character string
Null == <<"null">>

Hello == <<"h", "e", "l", "l", "o">>
World == <<"w", "o", "r", "l", "d">>
Empty == <<>>
\* invisibleMediaChar, the text of an attachment-only row
MediaChar == <<"~">>

VoiceMp3 == <<"v", "o", "i", "c", "e", ".", "m", "p", "3">>
VoiceCaf == <<"v", "o", "i", "c", "e", ".", "c", "a", "f">>
DotMp3 == <<".", "m", "p", "3">>
DotCaf == <<".", "c", "a", "f">>
Mp3 == <<"m", "p", "3">>

Chats == {"chatA", "chatB"}
Messages == {Hello, World}
AttachmentNames == {VoiceMp3, VoiceCaf, DotMp3, Mp3}

\* new Date().getTime() - 10000
SkewOffset == 10000

\* the clock value at startup
StartTime == 2 * SkewOffset

\* DEFAULT_POLL_FREQUENCY_MS, the period of the queue sweep
PollFrequencyMs == 1000

\* the deadline of a Send Request, counted from its creation
MatchTimeoutMs == 500

\* the capacity of the Dedup Cache
CacheCapacity == 2

\* what one step of the clock adds
ClockStep == PollFrequencyMs

EndTime == StartTime + MaxTicks * ClockStep

\* how far behind its cursor a listener's store query reaches
PollLookbackMs == 3 * SkewOffset

\* the creation timestamps the store gives its rows
CreatedStamps == {StartTime - SkewOffset, StartTime}

\* the delivery timestamps the store records: any Date, the epoch included
StampValues == {0, StartTime}

\* a Date column: <<>> is null, <<t>> is a Date with getTime() = t
NoDate == <<>>
DateOf(t) == <<t>>
getTime(d) == d[1]

Listeners == {"new-message", "updated-message", "group"}

\* what a row of the store can hold
RowContents ==
    {[text |-> t, transferName |-> Null] : t \in {Hello, Empty, Null}}
    \cup {[text |-> MediaChar, transferName |-> n] : n \in {VoiceMp3, VoiceCaf}}

\* the rows written while sends are in flight: a text, a row without text
\* and a transcoded voice note
WrittenContents ==
    {c \in RowContents : c.text \in {Hello, Null} \/ c.transferName = VoiceCaf}

\* a row as the messaging application writes it
NewRow(guid, chat, content, created) ==
    [guid |-> guid, chat |-> chat, text |-> content.text,
     transferName |-> content.transferName, dateCreated |-> created,
     dateDelivered |-> NoDate, dateRead |-> NoDate]

---------------------------------------------------------------------------
(* Pure functions *)

\* String.prototype.endsWith
EndsWith(s, suffix) ==
    /\ Len(s) >= Len(suffix)
    /\ SubSeq(s, Len(s) - Len(suffix) + 1, Len(s)) = suffix

\* the key of a row in the Dedup Cache: `${guid}:${delivered}:${read}`.
\* The two numerals hold no colon, so the joined string determines the three
\* parts and the triple stands for it.
getCacheName(message) ==
    LET delivered == IF message.dateDelivered # NoDate
                     THEN getTime(message.dateDelivered) ELSE 0
        read == IF message.dateRead # NoDate
                THEN getTime(message.dateRead) ELSE 0
    IN <<message.guid, delivered, read>>

\* fault: the name is registered as the caller gave it
AwaiterNameAsGiven(attachmentName) == attachmentName

\* sendAttachmentSync: the name the awaiter is registered with
AwaiterName(attachmentName) ==
    IF attachmentName # Null /\ EndsWith(attachmentName, DotMp3)
    THEN SubSeq(attachmentName, 1, Len(attachmentName) - 4) \o DotCaf
    ELSE attachmentName

\* fault: the offset is one second
BackdatedNowBySecond(clock) == clock - 1000

\* new Date(new Date().getTime() - 10000).getTime()
BackdatedNow(clock) == clock - SkewOffset

---------------------------------------------------------------------------
(* Reactions *)

\* MessageInterface.possibleReactions
possibleReactions ==
    {"love", "like", "dislike", "laugh", "emphasize", "question",
     "-love", "-like", "-dislike", "-laugh", "-emphasize", "-question"}

\* reactionTextMap: the phrase of a positive reaction
reactionTextMap ==
    ("love" :> <<"L", "o", "v", "e", "d">>) @@
    ("like" :> <<"L", "i", "k", "e", "d">>) @@
    ("dislike" :> <<"D", "i", "s", "l", "i", "k", "e", "d">>) @@
    ("laugh" :> <<"L", "a", "u", "g", "h", "e", "d", " ", "a", "t">>) @@
    ("emphasize" :> <<"E", "m", "p", "h", "a", "s", "i", "z", "e", "d">>) @@
    ("question" :> <<"Q", "u", "e", "s", "t", "i", "o", "n", "e", "d">>)

\* negativeReactionTextMap: the phrase of a removed reaction
negativeReactionTextMap ==
    ("-love" :> <<"R", "e", "m", "o", "v", "e", "d", " ", "a", " ", "h", "e", "a", "r", "t", " ", "f", "r", "o", "m">>) @@
    ("-like" :> <<"R", "e", "m", "o", "v", "e", "d", " ", "a", " ", "l", "i", "k", "e", " ", "f", "r", "o", "m">>) @@
    ("-dislike" :> <<"R", "e", "m", "o", "v", "e", "d", " ", "a", " ", "d", "i", "s", "l", "i", "k", "e", " ", "f", "r", "o", "m">>) @@
    ("-laugh" :> <<"R", "e", "m", "o", "v", "e", "d", " ", "a", " ", "l", "a", "u", "g", "h", " ", "f", "r", "o", "m">>) @@
    ("-emphasize" :> <<"R", "e", "m", "o", "v", "e", "d", " ", "a", "n", " ", "e", "x", "c", "l", "a", "m", "a", "t", "i", "o", "n", " ", "f", "r", "o", "m">>) @@
    ("-question" :> <<"R", "e", "m", "o", "v", "e", "d", " ", "a", " ", "q", "u", "e", "s", "t", "i", "o", "n", " ", "m", "a", "r", "k", " ", "f", "r", "o", "m">>)

\* reaction.startsWith("-"), over the names of possibleReactions
IsNegative(reaction) ==
    reaction \in {"-love", "-like", "-dislike", "-laugh", "-emphasize", "-question"}

\* the curly quotes the text of the target is put in, one character each
LeftQuote == <<"lquote">>
RightQuote == <<"rquote">>

AnImage == <<"a", "n", " ", "i", "m", "a", "g", "e">>
AMovie == <<"a", " ", "m", "o", "v", "i", "e">>
AnAttachment == <<"a", "n", " ", "a", "t", "t", "a", "c", "h", "m", "e", "n", "t">>

\* MIME types of a target's first attachment; Null: the column is empty
ImagePng == <<"i", "m", "a", "g", "e", "/", "p", "n", "g">>
VideoMp4 == <<"v", "i", "d", "e", "o", "/", "m", "p", "4">>
AudioCaf == <<"a", "u", "d", "i", "o", "/", "x", "-", "c", "a", "f">>
ImagePrefix == <<"i", "m", "a", "g", "e">>
VideoPrefix == <<"v", "i", "d", "e", "o">>

\* String.prototype.startsWith
StartsWith(str, prefix) ==
    /\ Len(str) >= Len(prefix)
    /\ SubSeq(str, 1, Len(prefix)) = prefix

\* the messages a reaction can target: text and the MIME types of the
\* attachments
ReactionTargets ==
    {[text |-> t, attachments |-> << >>] : t \in {Hello, Null, MediaChar}}
    \cup {[text |-> Hello, attachments |-> <<ImagePng>>]}
    \cup {[text |-> MediaChar, attachments |-> <<m>>] :
             m \in {ImagePng, VideoMp4, AudioCaf, Null}}

\* message.universalText(false) ?? ""
UniversalText(message) == IF message.text = Null THEN Empty ELSE message.text

\* text.length === 1 && text === invisibleMediaChar
IsOnlyMedia(message) ==
    Len(UniversalText(message)) = 1 /\ UniversalText(message) = MediaChar

\* sendReaction: prefix
Prefix(reaction) ==
    IF IsNegative(reaction) THEN negativeReactionTextMap[reaction]
    ELSE reactionTextMap[reaction]

\* sendReaction: message.attachments[0].mimeType.startsWith throws on a
\* mimeType that is null
ReactionThrows(message) ==
    /\ IsOnlyMedia(message)
    /\ message.attachments # << >>
    /\ message.attachments[1] = Null

\* sendReaction: msg, for a message on which it does not throw
ReactionMsg(message) ==
    IF IsOnlyMedia(message) /\ message.attachments # << >>
    THEN IF StartsWith(message.attachments[1], ImagePrefix) THEN AnImage
         ELSE IF StartsWith(message.attachments[1], VideoPrefix) THEN AMovie
         ELSE AnAttachment
    ELSE LeftQuote \o UniversalText(message) \o RightQuote

\* sendReaction: messageText = `${prefix} ${msg}`
ReactionText(reaction, message) ==
    Prefix(reaction) \o <<" ">> \o ReactionMsg(message)

---------------------------------------------------------------------------
(* The Reconciliation Queue (messageManager) and its Send Requests *)

\* new MessagePromise({chatGuid, text, isAttachment, sentAt, tempGuid}); the
\* deadline is the request's creation time plus the match timeout
MessagePromise(id, chatGuid, text, isAttachment, clock) ==
    [id |-> id, chatGuid |-> chatGuid, text |-> text,
     isAttachment |-> isAttachment, sentAt |-> BackdatedNow(clock),
     tempGuid |-> id, deadline |-> clock + MatchTimeoutMs]

\* fault: the awaiter of a text message is flagged as an attachment
MessageAwaiterAsAttachment(id, chatGuid, message, clock) ==
    MessagePromise(id, chatGuid, message, TRUE, clock)

\* sendMessageSync: the awaiter of a text message
MessageAwaiter(id, chatGuid, message, clock) ==
    MessagePromise(id, chatGuid, message, FALSE, clock)

\* sendAttachmentSync: the awaiter of an attachment
AttachmentAwaiter(id, chatGuid, attachmentName, clock) ==
    MessagePromise(id, chatGuid, AwaiterName(attachmentName), TRUE, clock)

\* messageManager.add
QueueAdd(q, awaiter) == Append(q, awaiter)

RemoveAt(q, i) == SubSeq(q, 1, i - 1) \o SubSeq(q, i + 1, Len(q))

\* the matching rule of one request against one candidate row
IsSame(request, row) ==
    /\ request.chatGuid = row.chat
    /\ IF request.isAttachment
       THEN request.text = row.transferName
       ELSE request.text = row.text
    /\ row.dateCreated >= request.sentAt

\* onCandidate: the index of the oldest pending request that matches, or 0
FindMatch(q, row) ==
    LET hits == {i \in 1..Len(q) : IsSame(q[i], row)}
    IN IF hits = {} THEN 0 ELSE CHOOSE i \in hits : \A j \in hits : i <= j

\* onTick: a request is swept once the clock is past its deadline
IsExpired(request, clock) == clock > request.deadline

Pending(q, clock) == LET Keep(r) == ~IsExpired(r, clock) IN SelectSeq(q, Keep)
Expired(q, clock) == LET Gone(r) == IsExpired(r, clock) IN SelectSeq(q, Gone)

---------------------------------------------------------------------------
(* The Dispatcher *)

\* A notification is [type, ev, guid, tempGuid]: guid is the row it carries
\* (0: no row), tempGuid the Send Request's token (0: none) and ev the
\* number of the listener's emission it forwards (0: none).

\* fault: the timeout is logged and not forwarded
TimeoutLoggedOnly(item) == << >>

\* queueService.on("message-timeout"): what the handler sends for one item
TimeoutNotifications(item) ==
    << [type |-> "message-timeout", ev |-> 0, guid |-> 0, tempGuid |-> item.tempGuid] >>

\* fault: the matched row is also forwarded as a plain new message
MatchAndPlainNotifications(h) ==
    << [type |-> "new-message", ev |-> h.ev, guid |-> h.guid, tempGuid |-> h.tempGuid],
       [type |-> "new-message", ev |-> h.ev, guid |-> h.guid, tempGuid |-> 0] >>

\* queueService.on("message-match"): what the handler sends after its await
MatchNotifications(h) ==
    << [type |-> "new-message", ev |-> h.ev, guid |-> h.guid, tempGuid |-> h.tempGuid] >>

\* newMsgListener.on("new-entry"): what the handler sends after its await
NewEntryNotifications(h) ==
    << [type |-> "new-message", ev |-> h.ev, guid |-> h.guid, tempGuid |-> 0] >>

\* updatedMsgListener.on("updated-entry"): what the handler sends after its await
UpdatedEntryNotifications(h) ==
    << [type |-> "updated-message", ev |-> h.ev, guid |-> h.guid, tempGuid |-> 0] >>

\* fault: every group event is forwarded as a name change
GroupNotificationsAsNameChange(h) ==
    << [type |-> "group-name-change", ev |-> h.ev, guid |-> h.guid,
        tempGuid |-> 0] >>

\* groupChangeListener.on(...): what each of the four handlers sends after
\* its await
GroupNotifications(h) ==
    << [type |-> IF h.type = "name-change" THEN "group-name-change" ELSE h.type,
        ev |-> h.ev, guid |-> h.guid, tempGuid |-> 0] >>

\* newMsgListener.on("new-entry"), up to its await: the log line takes
\* item.text.slice or text.substring, which throws on a null text
NewEntryThrows(row) == row.text = Null

---------------------------------------------------------------------------
(* The Dedup Cache *)

\* fault: has(key) finds nothing
CacheHasNothing(cache, key) == FALSE

\* has(key)
CacheHas(cache, key) == \E i \in 1..Len(cache) : cache[i] = key

\* add(key): idempotent; the oldest entry goes once the capacity is exceeded
CacheAdd(cache, key) ==
    IF CacheHas(cache, key) THEN cache
    ELSE LET grown == Append(cache, key)
         IN IF Len(grown) > CacheCapacity THEN Tail(grown) ELSE grown

---------------------------------------------------------------------------
(* What the other services start from *)

\* a group chat: title and participants; departed holds the participants
\* the store attributes a voluntary departure to since the last snapshot
TeamAB == [title |-> "Team", participants |-> {"A", "B"}]
StartGroup == [current |-> TeamAB, departed |-> {}, snapshot |-> TeamAB,
               changes |-> 0]

\* the helper service after construction: no companion has connected.
\* handle is this.helper (0: null); open holds the accepted sockets that
\* are not closed, readers those with a "data" listener; accepted counts the
\* connections, issued the typing commands; written is what went out on
\* the sockets and log what Server().log was given. lines are the event
\* lines the companion has sent and wire what of them the transport has not
\* delivered yet; indicators are the typing-indicator notifications emitted,
\* failures the reads that threw, lastRead the latest "data" chunk with
\* what the reader made of it
NoHelper ==
    [handle |-> 0, open |-> {}, readers |-> {}, accepted |-> 0, issued |-> 0,
     commands |-> << >>, written |-> << >>, log |-> << >>, lines |-> << >>, wire |-> << >>,
     indicators |-> << >>, failures |-> 0,
     lastRead |-> [tokens |-> << >>, notes |-> << >>, threw |-> FALSE]]

\* no attributedBody column has been read or written
NoBody ==
    [pc |-> "idle", dbValue |-> [kind |-> "null", groups |-> << >>],
     raised |-> FALSE, result |-> [isNull |-> TRUE, list |-> << >>],
     entity |-> [isNull |-> TRUE, list |-> << >>],
     column |-> [isNull |-> TRUE, list |-> << >>]]

\* start() has run with a store handle: everything is started
Started ==
    [pc |-> "started", db |-> TRUE, listening |-> TRUE, sweeping |-> TRUE,
     alerts |-> << >>, ipc |-> TRUE, tunnel |-> TRUE]

---------------------------------------------------------------------------
(* The initial state: the services are constructed and started, the store is
   empty and no send has been made *)

Init ==
    /\ now = StartTime
    /\ cursor = [l \in Listeners |-> StartTime]
    /\ nextSweep = StartTime + PollFrequencyMs
    /\ store = <<>>
    /\ queue = <<>>
    /\ calls = <<>>
    /\ eventCache = <<>>
    /\ ownCache = <<>>
    /\ handlers = {}
    /\ sent = EmptyBag
    /\ emitted = <<>>
    /\ suppressed = {}
    /\ lastPoll = [l \in Listeners |-> "ok"]
    /\ group = StartGroup
    /\ helper = NoHelper
    /\ boot = Started
    /\ body = NoBody

---------------------------------------------------------------------------
(* The clock and the external store *)

\* time passes; a due sweep runs before the clock moves on
Tick ==
    /\ boot.sweeping => now < nextSweep
    /\ now < EndTime
    /\ now' = now + ClockStep
    /\ UNCHANGED <<cursor, nextSweep, store, queue, calls, eventCache,
                   ownCache, handlers, sent, emitted, suppressed,
                   lastPoll, group, helper, boot, body>>

\* the messaging application writes a row (a sent or a received message)
StoreInsert(chat, content, created) ==
    /\ Len(store) < MaxRows
    /\ store' = Append(store, NewRow(Len(store) + 1, chat, content, created))
    /\ UNCHANGED <<now, cursor, nextSweep, queue, calls, eventCache,
                   ownCache, handlers, sent, emitted, suppressed,
                   lastPoll, group, helper, boot, body>>

\* the messaging application records the delivery of a row
StoreDelivered(g, t) ==
    /\ store[g].dateDelivered = NoDate
    /\ store' = [store EXCEPT ![g].dateDelivered = DateOf(t)]
    /\ UNCHANGED <<now, cursor, nextSweep, queue, calls, eventCache,
                   ownCache, handlers, sent, emitted, suppressed,
                   lastPoll, group, helper, boot, body>>

\* the messaging application records that a row was read
StoreRead(g, t) ==
    /\ store[g].dateRead = NoDate
    /\ store' = [store EXCEPT ![g].dateRead = DateOf(t)]
    /\ UNCHANGED <<now, cursor, nextSweep, queue, calls, eventCache,
                   ownCache, handlers, sent, emitted, suppressed,
                   lastPoll, group, helper, boot, body>>

---------------------------------------------------------------------------
(* The send paths *)

\* a call's record: its arguments, the clock it read, its local awaiter,
\* where the caller stands (status), the state of awaiter.promise and the
\* row it resolved with (result); matched and timedOut count the terminal
\* resolutions of the call's Send Request
NewCall(op, chatGuid, arg, clock, awaiter, status) ==
    [op |-> op, chatGuid |-> chatGuid, arg |-> arg, at |-> clock,
     awaiter |-> awaiter, status |-> status,
     promise |-> "pending", result |-> 0, matched |-> 0, timedOut |-> 0]

\* the awaiter a send path builds from its arguments
AwaiterOf(op, id, chatGuid, arg, clock) ==
    IF op = "sendMessageSync"
    THEN MessageAwaiter(id, chatGuid, arg, clock)
    ELSE AttachmentAwaiter(id, chatGuid, arg, clock)

\* fault: the awaiter is handed to the queue twice
SendMessageSyncAddsTwice(chatGuid, message) ==
    /\ Len(calls) < MaxSends
    /\ LET awaiter == AwaiterOf("sendMessageSync", Len(calls) + 1, chatGuid,
                                message, now)
       IN /\ queue' = QueueAdd(QueueAdd(queue, awaiter), awaiter)
          /\ calls' = Append(calls, NewCall("sendMessageSync", chatGuid, message,
                                            now, awaiter, "primitive"))
    /\ UNCHANGED <<now, cursor, nextSweep, store, eventCache, ownCache,
                   handlers, sent, emitted, suppressed,
                   lastPoll, group, helper, boot, body>>

\* sendMessageSync with method apple-script, up to the await of the primitive
SendMessageSync(chatGuid, message) ==
    /\ Len(calls) < MaxSends
    /\ LET awaiter == AwaiterOf("sendMessageSync", Len(calls) + 1, chatGuid,
                                message, now)
       IN /\ queue' = QueueAdd(queue, awaiter)
          /\ calls' = Append(calls, NewCall("sendMessageSync", chatGuid, message,
                                            now, awaiter, "primitive"))
    /\ UNCHANGED <<now, cursor, nextSweep, store, eventCache, ownCache,
                   handlers, sent, emitted, suppressed,
                   lastPoll, group, helper, boot, body>>

\* sendAttachmentSync, up to the await of the primitive
SendAttachmentSync(chatGuid, attachmentName) ==
    /\ Len(calls) < MaxSends
    /\ LET awaiter == AwaiterOf("sendAttachmentSync", Len(calls) + 1, chatGuid,
                                attachmentName, now)
       IN /\ queue' = QueueAdd(queue, awaiter)
          /\ calls' = Append(calls, NewCall("sendAttachmentSync", chatGuid,
                                            attachmentName, now, awaiter,
                                            "primitive"))
    /\ UNCHANGED <<now, cursor, nextSweep, store, eventCache, ownCache,
                   handlers, sent, emitted, suppressed,
                   lastPoll, group, helper, boot, body>>

\* the awaiter of a call that threw before it built one
NoAwaiter == [id |-> 0]

\* sendReaction, up to the await of the primitive: the text to match on is
\* built, the awaiter is created and added; a target on which the text
\* cannot be built makes the method throw before
SendReaction(chatGuid, message, reaction) ==
    /\ Len(calls) < MaxSends
    /\ LET arg == [reaction |-> reaction, message |-> message]
           awaiter == MessagePromise(Len(calls) + 1, chatGuid,
                                     ReactionText(reaction, message), FALSE, now)
       IN IF ReactionThrows(message)
          THEN /\ calls' = Append(calls, NewCall("sendReaction", chatGuid, arg,
                                                 now, NoAwaiter, "threw"))
               /\ UNCHANGED queue
          ELSE /\ queue' = QueueAdd(queue, awaiter)
               /\ calls' = Append(calls, NewCall("sendReaction", chatGuid, arg,
                                                 now, awaiter, "primitive"))
    /\ UNCHANGED <<now, cursor, nextSweep, store, eventCache, ownCache,
                   handlers, sent, emitted, suppressed,
                   lastPoll, group, helper, boot, body>>

\* the send primitive returns: the caller goes on to await awaiter.promise
PrimitiveReturns(i) ==
    /\ calls[i].status = "primitive"
    /\ calls' = [calls EXCEPT ![i].status = "awaiting"]
    /\ UNCHANGED <<now, cursor, nextSweep, store, queue, eventCache,
                   ownCache, handlers, sent, emitted, suppressed,
                   lastPoll, group, helper, boot, body>>

\* the send primitive throws: the error leaves the send method
PrimitiveFails(i) ==
    /\ calls[i].status = "primitive"
    /\ calls' = [calls EXCEPT ![i].status = "send-failed"]
    /\ UNCHANGED <<now, cursor, nextSweep, store, queue, eventCache,
                   ownCache, handlers, sent, emitted, suppressed,
                   lastPoll, group, helper, boot, body>>

---------------------------------------------------------------------------
(* The queue sweep *)

\* the bag of the elements of a sequence
RECURSIVE SeqToBag(_)
SeqToBag(seq) ==
    IF seq = <<>> THEN EmptyBag
    ELSE SetToBag({Head(seq)}) (+) SeqToBag(Tail(seq))

RECURSIVE Flatten(_)
Flatten(seqs) == IF seqs = <<>> THEN <<>> ELSE Head(seqs) \o Flatten(Tail(seqs))

\* how often request id occurs in a sequence of requests
Occurrences(q, id) == Cardinality({k \in 1..Len(q) : q[k].id = id})

\* QueueService's timer: every request past its deadline is removed and
\* rejected, and "message-timeout" is emitted for it; the handler logs and
\* calls sendNotification, whose socket emit is its first statement
QueueSweep ==
    /\ boot.sweeping
    /\ now = nextSweep
    /\ LET gone == Expired(queue, now) IN
         /\ queue' = Pending(queue, now)
         /\ calls' = [i \in 1..Len(calls) |->
                IF Occurrences(gone, i) = 0 THEN calls[i]
                ELSE [calls[i] EXCEPT
                        !.timedOut = @ + Occurrences(gone, i),
                        !.promise = IF @ = "pending" THEN "rejected" ELSE @]]
         /\ sent' = sent (+) SeqToBag(
                Flatten([k \in 1..Len(gone) |-> TimeoutNotifications(gone[k])]))
    /\ nextSweep' = now + PollFrequencyMs
    /\ UNCHANGED <<now, cursor, store, eventCache, ownCache, handlers, emitted, suppressed,
                   lastPoll, group, helper, boot, body>>

---------------------------------------------------------------------------
(* The listeners *)

Max(a, b) == IF a >= b THEN a ELSE b

\* the rows of a batch in ascending timestamp order
RECURSIVE SortBatch(_)
SortBatch(guids) ==
    IF guids = {} THEN <<>>
    ELSE LET first == CHOOSE g \in guids : \A o \in guids :
                          \/ store[g].dateCreated < store[o].dateCreated
                          \/ /\ store[g].dateCreated = store[o].dateCreated
                             /\ g <= o
         IN <<first>> \o SortBatch(guids \ {first})

\* the record of one candidate that passed a listener's dedup check: the
\* batch it belongs to (the number of the batch's first emission), the row
\* as it was, the request it resolved (0: none) and whether its key was in
\* the shared cache
Sighting(listener, batch, row, matched, known) ==
    [listener |-> listener, batch |-> batch, key |-> getCacheName(row),
     row |-> row, matched |-> matched, known |-> known]

\* fault: emitting an event waits for the handlers of the earlier ones
EmitAwaitsHandlersAlways == TRUE

\* whether emitting an event waits for a handler to end. The handlers are
\* async functions: emit returns when the handler reaches its first await
EmitAwaitsHandlers == FALSE

\* what "message-match" starts: the handler, suspended at getMessageResponse
MatchHandlers(ev, row, request) ==
    {[type |-> "message-match", ev |-> ev, guid |-> row.guid,
      tempGuid |-> request.tempGuid, stage |-> "response"]}

\* what "new-entry" starts: the handler, suspended at getMessageResponse,
\* unless it threw before
NewEntryHandlers(ev, row) ==
    IF NewEntryThrows(row) THEN {}
    ELSE {[type |-> "new-entry", ev |-> ev, guid |-> row.guid, tempGuid |-> 0,
           stage |-> "response"]}

\* what "updated-entry" starts
UpdatedEntryHandlers(ev, row) ==
    {[type |-> "updated-entry", ev |-> ev, guid |-> row.guid, tempGuid |-> 0,
      stage |-> "response"]}

\* the request is resolved with the candidate
Resolve(call, row) ==
    [call EXCEPT !.matched = @ + 1,
                 !.promise = IF @ = "pending" THEN "resolved" ELSE @,
                 !.result = IF call.promise = "pending" THEN row.guid ELSE @]

\* the new-message listener on one candidate row. st holds the state the
\* batch works on: cache, queue, calls, handlers, emitted, suppressed.
OnNewCandidate(row, st) ==
    LET key == getCacheName(row)
        i == FindMatch(st.queue, row)
        ev == Len(st.emitted) + 1
    IN IF CacheHas(st.cache, key)
       THEN [st EXCEPT !.suppressed = @ \cup {key}]
       ELSE IF i > 0
       THEN [st EXCEPT
               !.cache = CacheAdd(@, key),
               !.queue = RemoveAt(@, i),
               !.calls[st.queue[i].id] = Resolve(@, row),
               !.emitted = Append(@, Sighting("new-message", st.batch, row,
                                              st.queue[i].id, FALSE)),
               !.handlers = @ \cup MatchHandlers(ev, row, st.queue[i])]
       ELSE [st EXCEPT
               !.cache = CacheAdd(@, key),
               !.emitted = Append(@, Sighting("new-message", st.batch, row, 0,
                                              FALSE)),
               !.handlers = @ \cup NewEntryHandlers(ev, row)]

RECURSIVE NewBatch(_, _)
NewBatch(batch, st) ==
    IF batch = <<>> THEN st
    ELSE NewBatch(Tail(batch), OnNewCandidate(store[Head(batch)], st))

\* queryNewMessagesSince(cursor)
NewRowsSince(c) ==
    {g \in 1..Len(store) : store[g].dateCreated > c - PollLookbackMs}

\* the listener's timer has fired and the loop is free to run: the query
\* returns rows, and no handler of an earlier event holds the loop. The rest
\* of the tick only assigns.
NewPollCanRun ==
    /\ boot.listening
    /\ Len(emitted) < MaxEvents
    /\ NewRowsSince(cursor["new-message"]) # {}
    /\ EmitAwaitsHandlers => handlers = {}

\* one tick of the new-message listener
PollNewMessages ==
    LET batch == SortBatch(NewRowsSince(cursor["new-message"]))
        st == NewBatch(batch, [cache |-> eventCache, queue |-> queue,
                               calls |-> calls, handlers |-> handlers,
                               emitted |-> emitted, suppressed |-> suppressed,
                               batch |-> Len(emitted) + 1])
    IN /\ NewPollCanRun
       /\ eventCache' = st.cache
       /\ queue' = st.queue
       /\ calls' = st.calls
       /\ handlers' = st.handlers
       /\ emitted' = st.emitted
       /\ cursor' = [cursor EXCEPT !["new-message"] =
                        Max(@, store[batch[Len(batch)]].dateCreated)]
       /\ suppressed' = st.suppressed
       /\ lastPoll' = [lastPoll EXCEPT !["new-message"] = "ok"]
       /\ UNCHANGED <<now, nextSweep, store, ownCache, sent, group, helper, boot, body>>

\* the later of a row's delivery and read timestamps (0 when it has neither)
LastStamp(row) ==
    Max(IF row.dateDelivered = NoDate THEN 0 ELSE getTime(row.dateDelivered),
        IF row.dateRead = NoDate THEN 0 ELSE getTime(row.dateRead))

\* queryUpdatedMessagesSince(cursor)
UpdatedRowsSince(c) ==
    {g \in 1..Len(store) :
        /\ store[g].dateDelivered # NoDate \/ store[g].dateRead # NoDate
        /\ LastStamp(store[g]) > c - PollLookbackMs}

\* whether a listener was constructed with the shared eventCache:
\* MessageListener is, MessageUpdateListener is not
UsesEventCache(listener) == listener = "new-message"

\* the updated-message listener on one candidate row; st holds cache,
\* handlers and emitted
OnUpdatedCandidate(row, st) ==
    LET key == getCacheName(row)
        ev == Len(st.emitted) + 1
    IN IF CacheHas(st.cache, key) THEN st
       ELSE [st EXCEPT
               !.cache = CacheAdd(@, key),
               !.emitted = Append(@, Sighting("updated-message", st.batch, row, 0,
                                              CacheHas(eventCache, key))),
               !.handlers = @ \cup UpdatedEntryHandlers(ev, row)]

RECURSIVE UpdatedBatch(_, _)
UpdatedBatch(batch, st) ==
    IF batch = <<>> THEN st
    ELSE UpdatedBatch(Tail(batch), OnUpdatedCandidate(store[Head(batch)], st))

\* the same for the updated-message listener
UpdatedPollCanRun ==
    /\ boot.listening
    /\ Len(emitted) < MaxEvents
    /\ UpdatedRowsSince(cursor["updated-message"]) # {}
    /\ EmitAwaitsHandlers => handlers = {}

\* one tick of the updated-message listener
PollUpdatedMessages ==
    LET batch == SortBatch(UpdatedRowsSince(cursor["updated-message"]))
        shared == UsesEventCache("updated-message")
        st == UpdatedBatch(batch,
                [cache |-> IF shared THEN eventCache ELSE ownCache,
                 handlers |-> handlers, emitted |-> emitted,
                 batch |-> Len(emitted) + 1])
    IN /\ UpdatedPollCanRun
       /\ IF shared
          THEN eventCache' = st.cache /\ UNCHANGED ownCache
          ELSE ownCache' = st.cache /\ UNCHANGED eventCache
       /\ handlers' = st.handlers
       /\ emitted' = st.emitted
       /\ cursor' = [cursor EXCEPT !["updated-message"] =
                        Max(@, LastStamp(store[batch[Len(batch)]]))]
       /\ lastPoll' = [lastPoll EXCEPT !["updated-message"] = "ok"]
       /\ UNCHANGED <<now, nextSweep, store, queue, calls, sent, suppressed,
                       group, helper, boot, body>>

---------------------------------------------------------------------------
(* The group listener: the chat's snapshot against the last one kept *)

\* the order participants are listed in
ParticipantOrder == <<"A", "B", "C">>

Titles == {"Team", "Team HQ"}

\* the participants of a set, in listing order
InOrder(people) == SelectSeq(ParticipantOrder, LAMBDA p : p \in people)

GroupEvent(kind, value) == [kind |-> kind, value |-> value]

RECURSIVE EventsFor(_, _)
EventsFor(kind, people) ==
    IF people = <<>> THEN <<>>
    ELSE <<GroupEvent(kind, Head(people))>> \o EventsFor(kind, Tail(people))

\* fault: the additions are listed before the removals
GroupDiffAddedFirst(previous, current, departed) ==
    LET gone == previous.participants \ current.participants
    IN (IF current.title # previous.title
        THEN <<GroupEvent("name-change", current.title)>> ELSE <<>>)
       \o EventsFor("participant-added",
                    InOrder(current.participants \ previous.participants))
       \o EventsFor("participant-removed", InOrder(gone \ departed))
       \o EventsFor("participant-left", InOrder(gone \cap departed))

\* the deltas between two snapshots: name change, then removals, then
\* additions, then departures. departed holds the participants the store
\* attributes their own removal to.
GroupDiff(previous, current, departed) ==
    LET gone == previous.participants \ current.participants
    IN (IF current.title # previous.title
        THEN <<GroupEvent("name-change", current.title)>> ELSE <<>>)
       \o EventsFor("participant-removed", InOrder(gone \ departed))
       \o EventsFor("participant-added",
                    InOrder(current.participants \ previous.participants))
       \o EventsFor("participant-left", InOrder(gone \cap departed))

\* the store: the chat is renamed
GroupRename(title) ==
    /\ group.changes < MaxChanges
    /\ group.current.title # title
    /\ group' = [group EXCEPT !.current.title = title, !.changes = @ + 1]
    /\ UNCHANGED <<now, cursor, nextSweep, store, queue, calls, eventCache,
                   ownCache, handlers, sent, emitted, suppressed,
                   lastPoll, helper, boot, body>>

\* the store: somebody else removes p from the chat
ParticipantRemoved(p) ==
    /\ group.changes < MaxChanges
    /\ p \in group.current.participants
    /\ group' = [group EXCEPT !.current.participants = @ \ {p},
                              !.changes = @ + 1]
    /\ UNCHANGED <<now, cursor, nextSweep, store, queue, calls, eventCache,
                   ownCache, handlers, sent, emitted, suppressed,
                   lastPoll, helper, boot, body>>

\* the store: p is added to the chat
ParticipantAdded(p) ==
    /\ group.changes < MaxChanges
    /\ p \notin group.current.participants
    /\ group' = [group EXCEPT !.current.participants = @ \cup {p},
                              !.departed = @ \ {p}, !.changes = @ + 1]
    /\ UNCHANGED <<now, cursor, nextSweep, store, queue, calls, eventCache,
                   ownCache, handlers, sent, emitted, suppressed,
                   lastPoll, helper, boot, body>>

\* the store: p leaves the chat
ParticipantLeft(p) ==
    /\ group.changes < MaxChanges
    /\ p \in group.current.participants
    /\ group' = [group EXCEPT !.current.participants = @ \ {p},
                              !.departed = @ \cup {p}, !.changes = @ + 1]
    /\ UNCHANGED <<now, cursor, nextSweep, store, queue, calls, eventCache,
                   ownCache, handlers, sent, emitted, suppressed,
                   lastPoll, helper, boot, body>>

\* the record of one group event; it has the fields of a row sighting
GroupSighting(batch, event) ==
    [listener |-> "group", batch |-> batch, key |-> <<event.kind, event.value>>,
     row |-> [guid |-> 0, kind |-> event.kind, value |-> event.value],
     matched |-> 0, known |-> FALSE]

\* what a group event starts: the handler, suspended at getMessageResponse
GroupHandlers(ev, event) ==
    {[type |-> event.kind, ev |-> ev, guid |-> 0, tempGuid |-> 0,
      stage |-> "response"]}

RECURSIVE GroupBatch(_, _)
GroupBatch(events, st) ==
    IF events = <<>> THEN st
    ELSE GroupBatch(Tail(events),
            [st EXCEPT
               !.emitted = Append(@, GroupSighting(st.batch, Head(events))),
               !.handlers = @ \cup GroupHandlers(Len(st.emitted) + 1,
                                                 Head(events))])

\* the same for the group listener
GroupPollCanRun ==
    /\ boot.listening
    /\ Len(emitted) < MaxEvents
    /\ GroupDiff(group.snapshot, group.current, group.departed) # <<>>
    /\ EmitAwaitsHandlers => handlers = {}

\* one tick of the group listener
PollGroupChanges ==
    LET events == GroupDiff(group.snapshot, group.current, group.departed)
        st == GroupBatch(events, [handlers |-> handlers, emitted |-> emitted,
                                  batch |-> Len(emitted) + 1])
    IN /\ GroupPollCanRun
       /\ handlers' = st.handlers
       /\ emitted' = st.emitted
       /\ group' = [group EXCEPT !.snapshot = group.current, !.departed = {}]
       /\ lastPoll' = [lastPoll EXCEPT !["group"] = "ok"]
       /\ UNCHANGED <<now, cursor, nextSweep, store, queue, calls, eventCache,
                      ownCache, sent, suppressed, helper, boot, body>>

---------------------------------------------------------------------------
(* The Dispatcher's handlers after their await *)

\* what a suspended handler hands to sendNotification when it resumes
NotificationsOf(h) ==
    IF h.type = "message-match" THEN MatchNotifications(h)
    ELSE IF h.type = "new-entry" THEN NewEntryNotifications(h)
    ELSE IF h.type = "updated-entry" THEN UpdatedEntryNotifications(h)
    ELSE GroupNotifications(h)

\* getMessageResponse resolves and the handler calls sendNotification, taken
\* as one step up to the handler's end
HandlerResumes(h) ==
    /\ h.stage = "response"
    /\ sent' = sent (+) SeqToBag(NotificationsOf(h))
    /\ handlers' = handlers \ {h}
    /\ UNCHANGED <<now, cursor, nextSweep, store, queue, calls, eventCache,
                   ownCache, emitted, suppressed,
                   lastPoll, group, helper, boot, body>>

\* the same in two steps. getMessageResponse resolves and the handler calls
\* sendNotification, which emits on the socket and awaits the push send
SocketEmit(h) ==
    /\ h.stage = "response"
    /\ sent' = sent (+) SeqToBag(NotificationsOf(h))
    /\ handlers' = (handlers \ {h}) \cup {[h EXCEPT !.stage = "push"]}
    /\ UNCHANGED <<now, cursor, nextSweep, store, queue, calls, eventCache,
                   ownCache, emitted, suppressed,
                   lastPoll, group, helper, boot, body>>

\* fcmService.sendNotification resolves and the handler ends
PushCompletes(h) ==
    /\ h.stage = "push"
    /\ handlers' = handlers \ {h}
    /\ UNCHANGED <<now, cursor, nextSweep, store, queue, calls, eventCache,
                   ownCache, sent, emitted, suppressed,
                   lastPoll, group, helper, boot, body>>

---------------------------------------------------------------------------
(* Sending and reconciling: the send paths, the queue, the new-message
   listener and the Dispatcher over a store whose rows are written once *)

Next ==
    \/ Tick
    \/ \E content \in WrittenContents : StoreInsert("chatA", content, StartTime)
    \/ SendMessageSync("chatA", Hello)
    \/ SendAttachmentSync("chatA", VoiceMp3)
    \/ \E i \in 1..Len(calls) : PrimitiveReturns(i)
    \/ \E i \in 1..Len(calls) : PrimitiveFails(i)
    \/ QueueSweep
    \/ PollNewMessages
    \/ \E h \in handlers : HandlerResumes(h)

Spec == Init /\ [][Next]_vars

\* the same without the handlers' resumptions, which the queue and its sweep
\* do not depend on
TimerNext ==
    \/ Tick
    \/ \E content \in WrittenContents : StoreInsert("chatA", content, StartTime)
    \/ SendMessageSync("chatA", Hello)
    \/ SendAttachmentSync("chatA", VoiceMp3)
    \/ \E i \in 1..Len(calls) : PrimitiveReturns(i)
    \/ \E i \in 1..Len(calls) : PrimitiveFails(i)
    \/ QueueSweep
    \/ PollNewMessages

\* the timers fire: the clock moves on and a due sweep runs
FairSpec == Init /\ [][TimerNext]_vars /\ WF_vars(Tick) /\ WF_vars(QueueSweep)

---------------------------------------------------------------------------
(* Matching: a queue of pending requests and one candidate row, drawn from
   the arguments the send paths accept and the rows the store can hold *)

SendInputs ==
    {[op |-> "sendMessageSync", chatGuid |-> c, arg |-> m] :
        c \in Chats, m \in Messages}
    \cup {[op |-> "sendAttachmentSync", chatGuid |-> "chatA", arg |-> n] :
        n \in AttachmentNames}

SendClocks == {StartTime, StartTime + ClockStep}

\* the state after the calls `inputs` were made at the clock values `clocks`
\* and their primitives returned, with one row in the store
MatchInit ==
    \E n \in 0..MaxPending :
      \E inputs \in [1..n -> SendInputs], clocks \in [1..n -> SendClocks],
         chat \in Chats, content \in RowContents, created \in CreatedStamps :
        LET Awaiter(i) == AwaiterOf(inputs[i].op, i, inputs[i].chatGuid,
                                    inputs[i].arg, clocks[i])
        IN /\ \A i \in 1..n, j \in 1..n : i <= j => clocks[i] <= clocks[j]
           /\ now = IF n = 0 THEN StartTime ELSE clocks[n]
           /\ cursor = [l \in Listeners |-> StartTime]
           /\ nextSweep = StartTime + PollFrequencyMs
           /\ store = <<NewRow(1, chat, content, created)>>
           /\ queue = [i \in 1..n |-> Awaiter(i)]
           /\ calls = [i \in 1..n |->
                         NewCall(inputs[i].op, inputs[i].chatGuid, inputs[i].arg,
                                 clocks[i], Awaiter(i), "awaiting")]
           /\ eventCache = <<>>
           /\ ownCache = <<>>
           /\ handlers = {}
           /\ sent = EmptyBag
           /\ emitted = <<>>
           /\ suppressed = {}
           /\ lastPoll = [l \in Listeners |-> "ok"]
           /\ group = StartGroup
           /\ helper = NoHelper
           /\ boot = Started
           /\ body = NoBody

MatchNext ==
    \/ QueueSweep
    \/ PollNewMessages
    \/ \E h \in handlers : HandlerResumes(h)

MatchSpec == MatchInit /\ [][MatchNext]_vars

---------------------------------------------------------------------------
(* Detecting changes: the listeners and the Dedup Cache over a store whose
   rows are stamped as delivered and read after they were written *)

DedupInit ==
    \E n \in 1..DedupRows :
        /\ now = StartTime
        /\ cursor = [l \in Listeners |-> StartTime]
        /\ nextSweep = StartTime + PollFrequencyMs
        /\ store = [g \in 1..n |->
                      NewRow(g, "chatA", [text |-> Hello, transferName |-> Null],
                             StartTime)]
        /\ queue = <<>>
        /\ calls = <<>>
        /\ eventCache = <<>>
        /\ ownCache = <<>>
        /\ handlers = {}
        /\ sent = EmptyBag
        /\ emitted = <<>>
        /\ suppressed = {}
        /\ lastPoll = [l \in Listeners |-> "ok"]
        /\ group = StartGroup
        /\ helper = NoHelper
        /\ boot = Started
        /\ body = NoBody

DedupNext ==
    \/ \E g \in 1..Len(store), t \in StampValues : StoreDelivered(g, t)
    \/ \E g \in 1..Len(store) : StoreRead(g, StartTime)
    \/ PollNewMessages
    \/ PollUpdatedMessages

DedupSpec == DedupInit /\ [][DedupNext]_vars

---------------------------------------------------------------------------
(* Properties of sending and reconciling *)

CallIds == 1..Len(calls)
Events == 1..Len(emitted)

\* the handlers suspended for emission ev
HandlersFor(ev) == {h \in handlers : h.ev = ev}

\* the notification the Dispatcher owes for emission ev of a row, carrying
\* tempGuid (0: none)
NewMessageNote(ev, tempGuid) ==
    [type |-> "new-message", ev |-> ev, guid |-> emitted[ev].row.guid,
     tempGuid |-> tempGuid]

\* the notification the Dispatcher owes for the timeout of call i
TimeoutNote(i) ==
    [type |-> "message-timeout", ev |-> 0, guid |-> 0,
     tempGuid |-> calls[i].awaiter.tempGuid]

\* C1: every registered Send Request is either still in the queue, once, or
\* has received exactly one terminal resolution (matched or timed out, never
\* both, never twice) and is out of the queue.
C1_OneTerminalResolution ==
    \A i \in CallIds :
        /\ Occurrences(queue, i) + calls[i].matched + calls[i].timedOut = 1
        /\ calls[i].promise = "pending" <=> Occurrences(queue, i) = 1
        /\ calls[i].promise = "resolved" <=> calls[i].matched = 1
        /\ calls[i].promise = "rejected" <=> calls[i].timedOut = 1

\* a request is matched by a poll that runs when its deadline has passed and
\* the sweep is due
C1_MatchedWhileSweepDue ==
    \E i \in CallIds :
        /\ calls[i].matched = 1
        /\ now > calls[i].awaiter.deadline
        /\ now = nextSweep

\* C2 (as stated): every unmatched candidate the new-message listener lets
\* pass has its 'new-message' notification at sendNotification, or the
\* handler that will send it is under way.
C2_UnmatchedForwarded ==
    \A ev \in Events :
        (emitted[ev].listener = "new-message" /\ emitted[ev].matched = 0)
        => \/ HandlersFor(ev) # {}
           \/ CopiesIn(NewMessageNote(ev, 0), sent) >= 1

\* C3: a matched candidate yields exactly one notification, the
\* 'new-message' of the message-match handler carrying the request's
\* tempGuid, and none without it.
C3_MatchedNotifiedOnce ==
    \A ev \in Events :
        emitted[ev].matched # 0 =>
            LET owed == NewMessageNote(ev,
                            calls[emitted[ev].matched].awaiter.tempGuid)
            IN /\ \A h \in HandlersFor(ev) : h.type = "message-match"
               /\ \A n \in BagToSet(sent) : n.ev = ev => n = owed
               /\ Cardinality(HandlersFor(ev)) + CopiesIn(owed, sent) = 1

\* a matched candidate whose notification has been sent
C3_MatchedNotificationSent ==
    \E ev \in Events :
        /\ emitted[ev].matched # 0
        /\ HandlersFor(ev) = {}
        /\ CopiesIn(NewMessageNote(ev,
                calls[emitted[ev].matched].awaiter.tempGuid), sent) = 1

\* C7 (as stated): after the send primitive failed, no request of that send
\* is pending in the queue and none has been timed out.
C7_FailedSendLeavesNoRequest ==
    \A i \in CallIds :
        calls[i].status = "send-failed" =>
            /\ Occurrences(queue, i) = 0
            /\ calls[i].timedOut = 0

\* a request is in the queue and a sweep after its deadline is still to come
AwaitsSweep(i) ==
    /\ Occurrences(queue, i) > 0
    /\ calls[i].awaiter.deadline < EndTime

\* C8: a pending request is out of the queue at the latest one sweep
\* interval after its deadline; one that timed out never returns to the
\* queue and is forwarded as exactly one 'message-timeout' carrying its
\* tempGuid; and time and again no request waits: each one that waited has
\* been matched or timed out.
C8_TimeoutWithinSweepInterval ==
    /\ [](\A k \in 1..Len(queue) : now <= queue[k].deadline + PollFrequencyMs)
    /\ [](\A i \in CallIds : CopiesIn(TimeoutNote(i), sent) = calls[i].timedOut)
    /\ [][\A i \in CallIds :
            calls[i].timedOut > 0 => /\ Occurrences(queue', i) = 0
                                     /\ calls'[i].timedOut = calls[i].timedOut]_vars
    /\ []<>(\A i \in CallIds : ~AwaitsSweep(i))

\* a request that no candidate matched has been rejected with the timeout
\* and its 'message-timeout' has been forwarded
C8_TimedOutAndForwarded ==
    \E i \in CallIds :
        /\ calls[i].timedOut = 1
        /\ calls[i].promise = "rejected"
        /\ Occurrences(queue, i) = 0
        /\ CopiesIn(TimeoutNote(i), sent) = 1

---------------------------------------------------------------------------
(* Properties of matching *)

\* the position of request id in the queue (0: not in it)
PositionOf(q, id) ==
    IF Occurrences(q, id) = 0 THEN 0 ELSE CHOOSE k \in 1..Len(q) : q[k].id = id

\* call i has a pending request that the candidate row satisfies: equal
\* chat, the text the caller sent (for an attachment the registered transfer
\* name) and a sentAt no later than the row's timestamp
Eligible(i, row) ==
    /\ Occurrences(queue, i) = 1
    /\ calls[i].chatGuid = row.chat
    /\ IF calls[i].op = "sendMessageSync"
       THEN calls[i].arg = row.text
       ELSE calls[i].awaiter.text = row.transferName
    /\ calls[i].awaiter.sentAt <= row.dateCreated

\* the new-message listener let exactly one candidate pass in this step
OneCandidatePassed ==
    /\ Len(emitted') = Len(emitted) + 1
    /\ emitted'[Len(emitted')].listener = "new-message"

\* C9: the request a candidate resolves is the oldest-inserted pending one
\* with equal chat, equal expected text and sentAt no later than the
\* candidate's timestamp; every other request stays as it was, and without
\* such a request nothing is resolved.
C9_OldestEligibleResolved ==
    [][OneCandidatePassed =>
        LET seen == emitted'[Len(emitted')]
            hits == {i \in CallIds : Eligible(i, seen.row)}
        IN IF hits = {}
           THEN seen.matched = 0 /\ queue' = queue /\ calls' = calls
           ELSE LET oldest == CHOOSE i \in hits : \A j \in hits :
                                  PositionOf(queue, i) <= PositionOf(queue, j)
                IN /\ seen.matched = oldest
                   /\ calls'[oldest].promise = "resolved"
                   /\ calls'[oldest].result = seen.row.guid
                   /\ Occurrences(queue', oldest) = 0
                   /\ \A j \in CallIds \ {oldest} :
                         /\ calls'[j] = calls[j]
                         /\ Occurrences(queue', j) = Occurrences(queue, j)]_vars

\* requests for "hello" and "world" were pending for one chat, a "hello"
\* candidate came: the "hello" request is resolved, "world" stays pending
C9_HelloResolvedWorldPending ==
    \E i \in CallIds, j \in CallIds :
        /\ calls[i].op = "sendMessageSync" /\ calls[i].arg = Hello
        /\ calls[j].op = "sendMessageSync" /\ calls[j].arg = World
        /\ calls[i].chatGuid = calls[j].chatGuid
        /\ calls[i].promise = "resolved"
        /\ \E ev \in Events : emitted[ev].matched = i /\ emitted[ev].row.text = Hello
        /\ calls[j].promise = "pending"
        /\ Occurrences(queue, j) = 1

\* the name ends with the four characters ".mp3"
HasMp3Ending(name) ==
    /\ Len(name) >= 4
    /\ name[Len(name) - 3] = "." /\ name[Len(name) - 2] = "m"
    /\ name[Len(name) - 1] = "p" /\ name[Len(name)] = "3"

\* C10: the name sendAttachmentSync registers is the given name with a
\* final ".mp3" replaced by ".caf", and the given name otherwise; so a
\* request for "voice.mp3" is matched by a row named "voice.caf" only.
C10_RegisteredNameIsTranscoded ==
    /\ \A k \in 1..Len(queue) : queue[k] = calls[queue[k].id].awaiter
    /\ \A i \in CallIds :
          calls[i].op = "sendAttachmentSync" =>
            LET given == calls[i].arg
                registered == calls[i].awaiter.text
            IN IF HasMp3Ending(given)
               THEN /\ Len(registered) = Len(given)
                    /\ \A k \in 1..(Len(given) - 3) : registered[k] = given[k]
                    /\ registered[Len(given) - 2] = "c"
                    /\ registered[Len(given) - 1] = "a"
                    /\ registered[Len(given)] = "f"
               ELSE registered = given
    /\ \A ev \in Events :
          LET i == emitted[ev].matched
          IN (i # 0 /\ calls[i].op = "sendAttachmentSync" /\ calls[i].arg = VoiceMp3)
             => emitted[ev].row.transferName = VoiceCaf

\* a request for "voice.mp3" has been matched by a row named "voice.caf"
C10_VoiceMp3MatchedByCaf ==
    \E ev \in Events :
        /\ emitted[ev].matched # 0
        /\ calls[emitted[ev].matched].op = "sendAttachmentSync"
        /\ calls[emitted[ev].matched].arg = VoiceMp3
        /\ emitted[ev].row.transferName = VoiceCaf

---------------------------------------------------------------------------
(* Properties of change detection *)

\* two rows in the same state: equal (guid, deliveredAt, readAt)
SameTriple(a, b) ==
    /\ a.guid = b.guid
    /\ a.dateDelivered = b.dateDelivered
    /\ a.dateRead = b.dateRead

\* the candidates the new-message listener let pass, in order; each one
\* registered its key in the shared cache
IsNewSighting(e) == e.listener = "new-message"
NewSightings == SelectSeq(emitted, IsNewSighting)

\* C4 (as stated): a row seen again in the same state gives no second
\* Change Event.
C4_OneEventPerUnchangedRow ==
    \A p \in 1..Len(NewSightings), q \in 1..Len(NewSightings) :
        p < q => ~SameTriple(NewSightings[p].row, NewSightings[q].row)

\* C4 (amended): a row seen again in the same state gives no second Change
\* Event while its key is in the Dedup Cache; a second event for the same
\* state comes only after at least CacheCapacity other keys were registered
\* in between and evicted it. Every suppressed key had its event.
C4_OneEventUntilEvicted ==
    /\ \A p \in 1..Len(NewSightings), q \in 1..Len(NewSightings) :
          (p < q /\ SameTriple(NewSightings[p].row, NewSightings[q].row))
          => q - p > CacheCapacity
    /\ \A key \in suppressed :
          \E p \in 1..Len(NewSightings) : NewSightings[p].key = key

\* a row was seen again in the state it had been emitted in and suppressed
C4_SecondSightingSuppressed ==
    \E g \in 1..Len(store) :
        /\ getCacheName(store[g]) \in suppressed
        /\ Cardinality({p \in 1..Len(NewSightings) :
                           SameTriple(NewSightings[p].row, store[g])}) = 1

\* C5 (as stated): the key encodes the state of a row: a row has the key of
\* an emitted candidate only if it is in that candidate's state.
C5_KeyEncodesState ==
    \A ev \in Events, g \in 1..Len(store) :
        getCacheName(store[g]) = emitted[ev].key
        => SameTriple(store[g], emitted[ev].row)

\* C6 (as stated): every listener checks the one shared cache, so none lets
\* a candidate pass whose key is recorded in it.
C6_NoKnownKeyPasses ==
    \A ev \in Events : ~emitted[ev].known

---------------------------------------------------------------------------
(* The send paths with their arguments: what each one registers *)

SendNext ==
    \/ Tick
    \/ QueueSweep
    \/ \E m \in Messages : SendMessageSync("chatA", m)
    \/ \E n \in AttachmentNames : SendAttachmentSync("chatA", n)
    \/ \E r \in possibleReactions, t \in ReactionTargets :
          SendReaction("chatA", t, r)
    \/ \E i \in 1..Len(calls) : PrimitiveReturns(i)

SendSpec == Init /\ [][SendNext]_vars

\* the target is attachment-only: its text is the media character alone and
\* it has an attachment
AttachmentOnly(message) ==
    /\ message.text = MediaChar
    /\ Len(message.attachments) >= 1

\* the phrase for the first attachment's media type
MediaPhrase(mimeType) ==
    IF mimeType # Null /\ StartsWith(mimeType, ImagePrefix) THEN AnImage
    ELSE IF mimeType # Null /\ StartsWith(mimeType, VideoPrefix) THEN AMovie
    ELSE AnAttachment

\* '<phrase> <target>' as the contract words it
ContractReactionText(reaction, message) ==
    LET phrase == IF reaction \in DOMAIN negativeReactionTextMap
                  THEN negativeReactionTextMap[reaction]
                  ELSE reactionTextMap[reaction]
        target == IF AttachmentOnly(message)
                  THEN MediaPhrase(message.attachments[1])
                  ELSE LeftQuote
                       \o (IF message.text = Null THEN << >> ELSE message.text)
                       \o RightQuote
    IN phrase \o <<" ">> \o target

\* C11 (as stated): for every reaction kind and every target message,
\* sendReaction registers a request whose text is '<phrase> <target>'.
C11_ReactionTextRegistered ==
    \A i \in CallIds :
        calls[i].op = "sendReaction" =>
            /\ calls[i].status # "threw"
            /\ calls[i].awaiter.text =
                   ContractReactionText(calls[i].arg.reaction, calls[i].arg.message)

\* C12: in each send path the sentAt of the registered request is the clock
\* value read at its creation minus exactly 10000 milliseconds.
C12_SentAtBackdatedTenSeconds ==
    /\ \A i \in CallIds :
          calls[i].status # "threw" => calls[i].awaiter.sentAt = calls[i].at - 10000
    /\ \A k \in 1..Len(queue) :
          queue[k].sentAt = calls[queue[k].id].at - 10000

\* a reaction registered after the clock moved on carries the back-dated
\* sentAt in the queue
C12_ReactionBackdatedLater ==
    \E k \in 1..Len(queue) :
        /\ calls[queue[k].id].op = "sendReaction"
        /\ calls[queue[k].id].at > StartTime
        /\ queue[k].sentAt = calls[queue[k].id].at - 10000

---------------------------------------------------------------------------
(* Group changes: the store's chat changes, the group listener and the
   Dispatcher *)

Participants == {ParticipantOrder[i] : i \in 1..Len(ParticipantOrder)}

GroupNext ==
    \/ \E t \in Titles : GroupRename(t)
    \/ \E p \in Participants : ParticipantRemoved(p)
    \/ \E p \in Participants : ParticipantAdded(p)
    \/ \E p \in Participants : ParticipantLeft(p)
    \/ PollGroupChanges
    \/ \E h \in handlers : HandlerResumes(h)

GroupSpec == Init /\ [][GroupNext]_vars

TeamHQAC == [title |-> "Team HQ", participants |-> {"A", "C"}]

\* the place of an event kind in the order of one window's events
KindRank(kind) ==
    CASE kind = "name-change" -> 1
      [] kind = "participant-removed" -> 2
      [] kind = "participant-added" -> 3
      [] kind = "participant-left" -> 4

\* the changes between the snapshot kept and the chat as it is, as
\* <<kind, value>> pairs
ChangesInWindow ==
    LET previous == group.snapshot
        current == group.current
        gone == previous.participants \ current.participants
    IN (IF current.title # previous.title
        THEN {<<"name-change", current.title>>} ELSE {})
       \cup {<<"participant-removed", p>> : p \in gone \ group.departed}
       \cup {<<"participant-added", p>> :
                p \in current.participants \ previous.participants}
       \cup {<<"participant-left", p>> : p \in gone \cap group.departed}

\* the events a step appends
Appended == SubSeq(emitted', Len(emitted) + 1, Len(emitted'))

\* C18: a poll of the group listener produces one event per structural
\* change of the window, no change twice, in the order name change,
\* removals, additions, departures; Team {A,B} against Team HQ {A,C} gives
\* name-change, participant-removed B, participant-added C.
C18_GroupEventsInKindOrder ==
    [][emitted' # emitted =>
         /\ {Appended[i].key : i \in 1..Len(Appended)} = ChangesInWindow
         /\ Len(Appended) = Cardinality(ChangesInWindow)
         /\ \A i, j \in 1..Len(Appended) :
               i < j => KindRank(Appended[i].row.kind)
                           <= KindRank(Appended[j].row.kind)
         /\ \A i \in 1..Len(Appended) : Appended[i].listener = "group"
         /\ (group.snapshot = TeamAB /\ group.current = TeamHQAC
               /\ group.departed = {})
            => [i \in 1..Len(Appended) |-> Appended[i].key]
                  = << <<"name-change", "Team HQ">>,
                       <<"participant-removed", "B">>,
                       <<"participant-added", "C">> >>]_vars

\* the window Team {A,B} to Team HQ {A,C} was polled: its three events are
\* one batch
C18_TeamToTeamHQPolled ==
    \E k \in 1..Len(emitted) :
        /\ Len(emitted) = k + 2
        /\ emitted[k].key = <<"name-change", "Team HQ">>
        /\ emitted[k + 1].key = <<"participant-removed", "B">>
        /\ emitted[k + 2].key = <<"participant-added", "C">>
        /\ \A i \in k..(k + 2) : emitted[i].batch = k
        /\ group.snapshot = TeamHQAC

---------------------------------------------------------------------------
(* Forwarding: the two message listeners over rows that are there from the
   start, and the Dispatcher's handlers with their two awaits *)

DispatchNext ==
    \/ \E g \in 1..Len(store) : StoreDelivered(g, StartTime)
    \/ PollNewMessages
    \/ PollUpdatedMessages
    \/ \E h \in handlers : SocketEmit(h)
    \/ \E h \in handlers : PushCompletes(h)

DispatchSpec == DedupInit /\ [][DispatchNext]_vars

\* the events whose notification was handed to sendNotification
Notified == {n.ev : n \in BagToSet(sent)}

\* the handler of event e is still suspended at getMessageResponse
AwaitsResponse(e) == \E h \in handlers : h.ev = e /\ h.stage = "response"

\* C13 (as stated): if a listener emits A before B in one batch, the
\* notification for A is sent before the notification for B, whatever the
\* completion order of the handlers' asynchronous steps.
C13_BatchOrderKept ==
    \A a, b \in 1..Len(emitted) :
        (/\ a < b
         /\ emitted[a].listener = emitted[b].listener
         /\ emitted[a].batch = emitted[b].batch
         /\ b \in Notified)
        => ~AwaitsResponse(a)

\* the rows a poll of each listener would be given
NewDue == NewRowsSince(cursor["new-message"])
UpdatedDue == UpdatedRowsSince(cursor["updated-message"])

---------------------------------------------------------------------------
(* Tagging: every source of events the Dispatcher listens to, with one row
   in the store and a chat that was renamed, lost B, gained C and was left
   by A before the first poll of the group listener *)

ChangedGroup ==
    [current |-> [title |-> "Team HQ", participants |-> {"C"}],
     departed |-> {"A"}, snapshot |-> TeamAB, changes |-> MaxChanges]

TagInit ==
    /\ now = StartTime
    /\ cursor = [l \in Listeners |-> StartTime]
    /\ nextSweep = StartTime + PollFrequencyMs
    /\ store = <<NewRow(1, "chatA", [text |-> Hello, transferName |-> Null],
                        StartTime)>>
    /\ queue = <<>>
    /\ calls = <<>>
    /\ eventCache = <<>>
    /\ ownCache = <<>>
    /\ handlers = {}
    /\ sent = EmptyBag
    /\ emitted = <<>>
    /\ suppressed = {}
    /\ lastPoll = [l \in Listeners |-> "ok"]
    /\ group = ChangedGroup
    /\ helper = NoHelper
    /\ boot = Started
    /\ body = NoBody

TagNext ==
    \/ Tick
    \/ \E g \in 1..Len(store) : StoreDelivered(g, StartTime)
    \/ SendMessageSync("chatA", Hello)
    \/ QueueSweep
    \/ PollNewMessages
    \/ PollUpdatedMessages
    \/ PollGroupChanges
    \/ \E h \in handlers : HandlerResumes(h)

TagSpec == TagInit /\ [][TagNext]_vars

\* the kind of event the Dispatcher received with emission e
EventKind(e) ==
    IF emitted[e].listener = "group" THEN emitted[e].row.kind
    ELSE IF emitted[e].listener = "updated-message" THEN "updated-entry"
    ELSE IF emitted[e].matched # 0 THEN "message-match"
    ELSE "new-entry"

\* the tag each kind of event is to be forwarded under
ContractTag(kind) ==
    CASE kind = "new-entry" -> "new-message"
      [] kind = "message-match" -> "new-message"
      [] kind = "updated-entry" -> "updated-message"
      [] kind = "name-change" -> "group-name-change"
      [] kind = "participant-removed" -> "participant-removed"
      [] kind = "participant-added" -> "participant-added"
      [] kind = "participant-left" -> "participant-left"

\* how many notifications were forwarded for emission e
ForwardedFor(e) ==
    LET notes == {n \in BagToSet(sent) : n.ev = e}
        RECURSIVE Sum(_)
        Sum(ns) == IF ns = {} THEN 0
                   ELSE LET n == CHOOSE x \in ns : TRUE
                        IN CopiesIn(n, sent) + Sum(ns \ {n})
    IN Sum(notes)

\* C15: every forwarded notification carries the one tag of the event it
\* stands for (a match with the request's tempGuid, everything else with
\* none; a timeout as 'message-timeout' for a request that timed out), and
\* no event is forwarded more than once.
C15_OneFixedTagPerEvent ==
    /\ \A n \in BagToSet(sent) :
          IF n.ev = 0
          THEN /\ n.type = "message-timeout"
               /\ \E i \in CallIds : calls[i].timedOut >= 1 /\ n = TimeoutNote(i)
          ELSE /\ n.ev \in Events
               /\ n.type = ContractTag(EventKind(n.ev))
               /\ n.tempGuid =
                     IF EventKind(n.ev) = "message-match"
                     THEN calls[emitted[n.ev].matched].awaiter.tempGuid
                     ELSE 0
    /\ \A e \in Events : ForwardedFor(e) <= 1
    /\ \A i \in CallIds : CopiesIn(TimeoutNote(i), sent) <= calls[i].timedOut

\* the four group events of one window were forwarded
C15_GroupEventsForwarded ==
    \A tag \in {"group-name-change", "participant-removed",
                "participant-added", "participant-left"} :
        \E n \in BagToSet(sent) : n.type = tag /\ n.ev # 0

---------------------------------------------------------------------------
(* Starting the server: setup, the socket and push services, the chat
   listeners, the IPC handlers and the tunnel, while the store is written
   and the clock runs *)

\* start() is entered: nothing is set up
Booting ==
    [pc |-> "setup", db |-> FALSE, listening |-> FALSE, sweeping |-> FALSE,
     alerts |-> << >>, ipc |-> FALSE, tunnel |-> FALSE]

BootFrame ==
    UNCHANGED <<now, cursor, store, queue, calls, eventCache, ownCache,
                handlers, sent, emitted, suppressed, lastPoll, group, helper, body>>

\* setup(): iMessageRepo.initialize() gives the store handle or throws,
\* which is caught and logged as an error
Setup(connected) ==
    /\ boot.pc = "setup"
    /\ boot' = [boot EXCEPT
                  !.pc = "services",
                  !.db = connected,
                  !.alerts = IF connected THEN @ ELSE Append(@, "error")]
    /\ UNCHANGED nextSweep
    /\ BootFrame

\* socketService.start() and fcmService.start()
StartServices ==
    /\ boot.pc = "services"
    /\ boot' = [boot EXCEPT !.pc = "chat"]
    /\ UNCHANGED nextSweep
    /\ BootFrame

\* fault: the listeners are started without looking at the store handle
StartChatListenerUnchecked ==
    /\ boot.pc = "chat"
    /\ boot' = [boot EXCEPT !.pc = "ipc", !.sweeping = TRUE,
                            !.listening = TRUE]
    /\ nextSweep' = now + PollFrequencyMs
    /\ BootFrame

\* startChatListener(): without a store handle an alert is created and the
\* method returns; with one the queue service and the listeners are started
StartChatListener ==
    /\ boot.pc = "chat"
    /\ IF ~boot.db
       THEN /\ boot' = [boot EXCEPT !.pc = "ipc",
                                    !.alerts = Append(@, "info")]
            /\ UNCHANGED nextSweep
       ELSE /\ boot' = [boot EXCEPT !.pc = "ipc", !.sweeping = TRUE,
                                    !.listening = TRUE]
            /\ nextSweep' = now + PollFrequencyMs
    /\ BootFrame

\* startIpcListener()
StartIpcListener ==
    /\ boot.pc = "ipc"
    /\ boot' = [boot EXCEPT !.pc = "tunnel", !.ipc = TRUE]
    /\ UNCHANGED nextSweep
    /\ BootFrame

\* connectToNgrok(): the tunnel is connected, or the failure is caught and
\* logged as an error
ConnectToNgrok(connected) ==
    /\ boot.pc = "tunnel"
    /\ boot' = [boot EXCEPT
                  !.pc = "started",
                  !.tunnel = TRUE,
                  !.alerts = IF connected THEN @ ELSE Append(@, "error")]
    /\ UNCHANGED nextSweep
    /\ BootFrame

BootInit ==
    /\ now = StartTime
    /\ cursor = [l \in Listeners |-> StartTime]
    /\ nextSweep = StartTime + PollFrequencyMs
    /\ store = <<>>
    /\ queue = <<>>
    /\ calls = <<>>
    /\ eventCache = <<>>
    /\ ownCache = <<>>
    /\ handlers = {}
    /\ sent = EmptyBag
    /\ emitted = <<>>
    /\ suppressed = {}
    /\ lastPoll = [l \in Listeners |-> "ok"]
    /\ group = StartGroup
    /\ helper = NoHelper
    /\ boot = Booting
    /\ body = NoBody

BootNext ==
    \/ \E connected \in BOOLEAN : Setup(connected)
    \/ StartServices
    \/ StartChatListener
    \/ StartIpcListener
    \/ \E connected \in BOOLEAN : ConnectToNgrok(connected)
    \/ Tick
    \/ StoreInsert("chatA", [text |-> Hello, transferName |-> Null], StartTime)
    \/ SendMessageSync("chatA", Hello)
    \/ QueueSweep
    \/ PollNewMessages
    \/ \E h \in handlers : HandlerResumes(h)

BootSpec == BootInit /\ [][BootNext]_vars

\* startChatListener has been called
ChatListenerCalled == boot.pc \in {"ipc", "tunnel", "started"}

\* alert kinds created so far
Alerts == {boot.alerts[i] : i \in 1..Len(boot.alerts)}

\* C16: when startChatListener finds no store handle, no listener and no
\* queue sweep is ever started (nothing is polled, no request is timed out),
\* an alert is created for it, and start() still starts the IPC handlers and
\* connects the tunnel.
C16_NoHandleNoListeners ==
    (ChatListenerCalled /\ ~boot.db) =>
        /\ ~boot.listening
        /\ ~boot.sweeping
        /\ "info" \in Alerts
        /\ emitted = <<>>
        /\ handlers = {}
        /\ \A i \in CallIds : calls[i].timedOut = 0
        /\ boot.pc \in {"tunnel", "started"} => boot.ipc
        /\ boot.pc = "started" => boot.tunnel

\* start() has ended without a store handle, with a row in the store, a
\* request in the queue and the clock past the time a sweep would have run
C16_StartedWithoutHandle ==
    /\ boot.pc = "started"
    /\ ~boot.db
    /\ boot.ipc
    /\ boot.tunnel
    /\ Len(store) >= 1
    /\ Len(queue) >= 1
    /\ now > StartTime + PollFrequencyMs

---------------------------------------------------------------------------
(* Cursors: the three polling loops over a store that is written while the
   clock runs, with queries that fail or return nothing; the handlers the
   events start stay suspended *)

\* whether listener l's query has something to return
Due(l) ==
    IF l = "new-message" THEN NewRowsSince(cursor[l]) # {}
    ELSE IF l = "updated-message" THEN UpdatedRowsSince(cursor[l]) # {}
    ELSE GroupDiff(group.snapshot, group.current, group.departed) # <<>>

\* fault: a failed poll loses the cursor
CursorAfterFailureReset(c) == 0

\* the cursor after a poll whose query failed
CursorAfterFailure(c) == c

\* whether listener l's timer is rescheduled after a tick, whatever the
\* tick's outcome was
Rescheduled(l) == TRUE

\* a tick of listener l whose query throws a transient store error: the
\* error is logged and the tick ends
PollFails(l) ==
    /\ boot.listening
    /\ Rescheduled(l)
    /\ EmitAwaitsHandlers => handlers = {}
    /\ lastPoll[l] # "failed"
    /\ lastPoll' = [lastPoll EXCEPT ![l] = "failed"]
    /\ cursor' = [cursor EXCEPT ![l] = CursorAfterFailure(@)]
    /\ UNCHANGED <<now, nextSweep, store, queue, calls, eventCache, ownCache,
                   handlers, sent, emitted, suppressed, group, helper, boot, body>>

\* a tick of listener l whose query returns no rows
PollEmpty(l) ==
    /\ boot.listening
    /\ Rescheduled(l)
    /\ EmitAwaitsHandlers => handlers = {}
    /\ ~Due(l)
    /\ lastPoll[l] # "empty"
    /\ lastPoll' = [lastPoll EXCEPT ![l] = "empty"]
    /\ UNCHANGED <<now, cursor, nextSweep, store, queue, calls, eventCache,
                   ownCache, handlers, sent, emitted, suppressed, group,
                   helper, boot, body>>

CursorNext ==
    \/ Tick
    \/ StoreInsert("chatA", [text |-> Hello, transferName |-> Null], now)
    \/ \E g \in 1..Len(store) : StoreDelivered(g, now)
    \/ PollNewMessages
    \/ PollUpdatedMessages
    \/ \E l \in Listeners : PollFails(l)
    \/ \E l \in Listeners : PollEmpty(l)

CursorSpec == Init /\ [][CursorNext]_vars

\* C17: no step lowers a cursor; a poll that failed or returned nothing
\* leaves its listener's cursor and the emitted events as they were; and
\* after such a poll the listener's next poll can run as soon as rows are due.
C17_CursorKeptOnFailedOrEmptyPoll ==
    /\ [][\A l \in Listeners :
            /\ cursor'[l] >= cursor[l]
            /\ (lastPoll'[l] # lastPoll[l] /\ lastPoll'[l] \in {"failed", "empty"})
                  => cursor'[l] = cursor[l] /\ emitted' = emitted]_vars
    /\ []((lastPoll["new-message"] # "ok" /\ NewDue # {}
              /\ Len(emitted) < MaxEvents) => NewPollCanRun)
    /\ []((lastPoll["updated-message"] # "ok" /\ UpdatedDue # {}
              /\ Len(emitted) < MaxEvents) => UpdatedPollCanRun)

\* the new-message listener's cursor has advanced and its latest poll
\* failed, while the updated-message listener's latest poll was empty
C17_FailedAfterAdvance ==
    /\ cursor["new-message"] > StartTime
    /\ lastPoll["new-message"] = "failed"
    /\ lastPoll["updated-message"] = "empty"

---------------------------------------------------------------------------
(* The helper channel: companions connect to the service's socket server
   and disconnect, and typing commands are issued *)

HelperFrame ==
    UNCHANGED <<now, cursor, nextSweep, store, queue, calls, eventCache,
                ownCache, handlers, sent, emitted, suppressed, lastPoll,
                group, boot, body>>

\* the value of a field a parsed object does not have
Undefined == "undefined"

\* the tokens of a line's text: punctuation, members (key and value) and
\* the line terminator
LBrace == <<"{">>
RBrace == <<"}">>
Comma == <<",">>
Newline == <<"\n">>

\* the text of a line, `{"event":e,"data":d}` and the terminator, as tokens
JsonLine(o) ==
    << LBrace, <<"event", o.event>>, Comma, <<"data", o.data>>, RBrace, Newline >>

\* fault: the command is written without the line terminator
CommandLineUnterminated(event, chatGuid) ==
    << LBrace, <<"event", event>>, Comma, <<"data", chatGuid>>, RBrace >>

\* JSON.stringify of an object with the members event and data, in the
\* order they were given
JSONStringify(data) ==
    << LBrace, <<"event", data.event>>, Comma, <<"data", data.data>>, RBrace >>

\* `${JSON.stringify(data)}\n` with data = {event, data: chatGuid}
CommandLine(event, chatGuid) ==
    JSONStringify([event |-> event, data |-> chatGuid]) \o <<Newline>>

\* the chat identities a typing command is given: a chat, the empty string,
\* or nothing
TypingChats == {"chatA", "", Undefined}

\* the server's connection callback: the socket becomes the handle, gets its
\* "data" reader and its "close" handler
HelperConnects ==
    /\ helper.accepted < MaxConns
    /\ LET socket == helper.accepted + 1
       IN helper' = [helper EXCEPT
                       !.handle = socket,
                       !.open = @ \cup {socket},
                       !.readers = @ \cup {socket},
                       !.accepted = socket,
                       !.log = Append(@, "connected")]
    /\ HelperFrame

\* fault: the close handler only logs
HelperClosesKeepsHandle(socket) ==
    /\ socket \in helper.open
    /\ helper' = [helper EXCEPT
                    !.open = @ \ {socket},
                    !.readers = @ \ {socket},
                    !.log = Append(@, "disconnected")]
    /\ HelperFrame

\* a socket closes: its "close" handler logs and sets this.helper to null
HelperCloses(socket) ==
    /\ socket \in helper.open
    /\ helper' = [helper EXCEPT
                    !.handle = 0,
                    !.open = @ \ {socket},
                    !.readers = @ \ {socket},
                    !.log = Append(@, "disconnected")]
    /\ HelperFrame

\* the record of one typing command: its arguments, the connections that
\* were open and the handle when it was issued, and the lines it wrote
Command(event, chatGuid, lines) ==
    [event |-> event, chatGuid |-> chatGuid, open |-> helper.open,
     handle |-> helper.handle, lines |-> lines]

\* the command wrote line to the socket the handle refers to
Wrote(event, chatGuid, line) ==
    [helper EXCEPT
       !.issued = @ + 1,
       !.commands = Append(@, Command(event, chatGuid, <<line>>)),
       !.written = Append(@, [socket |-> helper.handle, event |-> event,
                              data |-> chatGuid, line |-> line])]

\* the command logged entry and returned
Dropped(event, chatGuid, entry) ==
    [helper EXCEPT !.issued = @ + 1,
                   !.commands = Append(@, Command(event, chatGuid, << >>)),
                   !.log = Append(@, entry)]

\* fault: the command is written whether or not a companion is connected
TypingCommandUnguarded(event, chatGuid) ==
    /\ helper.issued < MaxCommands
    /\ helper' =
         IF chatGuid \in {Undefined, ""}
         THEN Dropped(event, chatGuid, "no-chat")
         ELSE Wrote(event, chatGuid, CommandLine(event, chatGuid))
    /\ HelperFrame

\* startTyping and stopTyping, which differ in the event name only. The
\* line is handed to the socket by one write; when write returns false (the
\* line was queued in user memory) the method logs it
TypingCommand(event, chatGuid) ==
    /\ helper.issued < MaxCommands
    /\ \E flushed \in BOOLEAN :
         helper' =
           IF helper.handle = 0
           THEN Dropped(event, chatGuid, "not-running")
           ELSE IF chatGuid \in {Undefined, ""}
           THEN Dropped(event, chatGuid, "no-chat")
           ELSE [Wrote(event, chatGuid, CommandLine(event, chatGuid)) EXCEPT
                   !.log = IF flushed THEN @ ELSE Append(@, "write-queued")]
    /\ HelperFrame

startTyping(chatGuid) == TypingCommand("start-typing", chatGuid)

stopTyping(chatGuid) == TypingCommand("stop-typing", chatGuid)

HelperNext ==
    \/ HelperConnects
    \/ \E socket \in helper.open : HelperCloses(socket)
    \/ \E chatGuid \in TypingChats : startTyping(chatGuid)
    \/ \E chatGuid \in TypingChats : stopTyping(chatGuid)

HelperSpec == Init /\ [][HelperNext]_vars

\* C19 (as stated): at most one accepted connection is open and has an
\* installed event reader.
C19_AtMostOneCompanion ==
    Cardinality(helper.open \cap helper.readers) <= 1

\* C20: a socket's close clears the handle; the handle is set again only by
\* a new connection of a companion; and a typing command issued while the
\* handle is cleared writes nothing and leaves it cleared.
C20_LostConnectionDropsCommands ==
    [][/\ helper'.open # helper.open /\ helper'.open \subseteq helper.open
            => helper'.handle = 0
       /\ (helper'.handle # 0 /\ helper'.handle # helper.handle)
            => /\ helper'.accepted = helper.accepted + 1
               /\ helper'.handle = helper'.accepted
       /\ (helper'.issued # helper.issued /\ helper.handle = 0)
            => /\ helper'.written = helper.written
               /\ helper'.handle = 0]_vars

\* a command was written to the companion, the connection was lost and the
\* next command was dropped
C20_DroppedAfterDisconnect ==
    /\ Len(helper.written) >= 1
    /\ Len(helper.log) >= 2
    /\ helper.log[Len(helper.log) - 1] = "disconnected"
    /\ helper.log[Len(helper.log)] = "not-running"
    /\ helper.open = {}

\* how often entry occurs in the helper service's log
Logged(entry) ==
    Cardinality({k \in 1..Len(helper.log) : helper.log[k] = entry})

\* C21: a typing command issued while the handle is cleared logs the failure
\* and changes nothing else of the service (commands is the history kept
\* for the properties): nothing is written and the handle stays
\* cleared; a later connection writes nothing, so the command is not
\* replayed; every command issued was either written once or logged as
\* dropped once.
C21_CommandsWithoutCompanionDropped ==
    /\ [][(helper'.issued # helper.issued /\ helper.handle = 0)
             => [helper' EXCEPT !.commands = helper.commands]
                   = [helper EXCEPT !.issued = @ + 1,
                                    !.log = Append(@, "not-running")]]_vars
    /\ [][helper'.accepted # helper.accepted
             => helper'.written = helper.written]_vars
    /\ [](Len(helper.written) + Logged("not-running") + Logged("no-chat")
             = helper.issued)
    /\ [](\A k \in 1..Len(helper.written) : helper.written[k].socket # 0)

\* commands were dropped before any companion connected, then one
\* connected, and nothing has been written
C21_DroppedThenConnected ==
    /\ helper.issued = MaxCommands
    /\ helper.log = [k \in 1..MaxCommands |-> "not-running"] \o <<"connected">>
    /\ helper.handle # 0
    /\ helper.written = << >>

---------------------------------------------------------------------------
(* The helper channel's inbound reader: a connected companion sends event
   lines and the transport delivers them in chunks of its own choosing *)

\* the event lines a companion sends: objects with the fields event and data
InboundLines ==
    {[event |-> e, data |-> d] :
        e \in {"started-typing", "stopped-typing", "ping"},
        d \in {"chatA", "chatB"}}

RECURSIVE TrimLeft(_)
TrimLeft(tokens) ==
    IF tokens # << >> /\ Head(tokens) = Newline THEN TrimLeft(Tail(tokens))
    ELSE tokens

RECURSIVE TrimRight(_)
TrimRight(tokens) ==
    IF tokens # << >> /\ tokens[Len(tokens)] = Newline
    THEN TrimRight(SubSeq(tokens, 1, Len(tokens) - 1))
    ELSE tokens

\* a key and its value
IsPair(token) == Len(token) = 2

\* JSON.parse: the text must be one value, here one object of two members,
\* with nothing but whitespace around it; anything else is a SyntaxError
JSONParse(tokens) ==
    LET text == TrimRight(TrimLeft(tokens))
    IN IF /\ Len(text) = 5
          /\ text[1] = LBrace /\ text[3] = Comma /\ text[5] = RBrace
          /\ IsPair(text[2]) /\ IsPair(text[4])
       THEN [ok |-> TRUE,
             value |-> [key \in {text[2][1], text[4][1]} |->
                          IF key = text[4][1] THEN text[4][2] ELSE text[2][2]]]
       ELSE [ok |-> FALSE, value |-> << >>]

\* data.<key> of a parsed object
Field(object, key) ==
    IF key \in DOMAIN object THEN object[key] ELSE Undefined

\* the "data" listener on one chunk: what it emits as typing-indicator
OnData(tokens) ==
    LET parsed == JSONParse(tokens)
        data == parsed.value
    IN IF ~parsed.ok THEN [threw |-> TRUE, notes |-> << >>]
       ELSE IF Field(data, "event") = "started-typing"
       THEN [threw |-> FALSE,
             notes |-> <<[display |-> TRUE, guid |-> Field(data, "guid")]>>]
       ELSE IF Field(data, "event") = "stopped-typing"
       THEN [threw |-> FALSE,
             notes |-> <<[display |-> FALSE, guid |-> Field(data, "guid")]>>]
       ELSE [threw |-> FALSE, notes |-> << >>]

\* the connected companion writes one event line
CompanionSends(line) ==
    /\ helper.handle # 0
    /\ Len(helper.lines) < MaxLines
    /\ helper' = [helper EXCEPT !.lines = Append(@, line),
                                !.wire = @ \o JsonLine(line)]
    /\ HelperFrame

\* the transport hands the reader the next n tokens as one "data" event
Deliver(n) ==
    /\ helper.handle \in helper.readers
    /\ n \in 1..Len(helper.wire)
    /\ LET chunk == SubSeq(helper.wire, 1, n)
           read == OnData(chunk)
       IN helper' = [helper EXCEPT
                       !.wire = SubSeq(@, n + 1, Len(@)),
                       !.indicators = @ \o read.notes,
                       !.failures = IF read.threw THEN @ + 1 ELSE @,
                       !.lastRead = [tokens |-> chunk, notes |-> read.notes,
                                     threw |-> read.threw]]
    /\ HelperFrame

\* one companion is connected
Connected ==
    [NoHelper EXCEPT !.handle = 1, !.open = {1}, !.readers = {1},
                     !.accepted = 1, !.log = <<"connected">>]

ReaderInit ==
    /\ now = StartTime
    /\ cursor = [l \in Listeners |-> StartTime]
    /\ nextSweep = StartTime + PollFrequencyMs
    /\ store = <<>>
    /\ queue = <<>>
    /\ calls = <<>>
    /\ eventCache = <<>>
    /\ ownCache = <<>>
    /\ handlers = {}
    /\ sent = EmptyBag
    /\ emitted = <<>>
    /\ suppressed = {}
    /\ lastPoll = [l \in Listeners |-> "ok"]
    /\ group = StartGroup
    /\ helper = Connected
    /\ boot = Started
    /\ body = NoBody

ReaderNext ==
    \/ \E line \in InboundLines : CompanionSends(line)
    \/ \E n \in 1..Len(helper.wire) : Deliver(n)

ReaderSpec == ReaderInit /\ [][ReaderNext]_vars

\* the notifications a line is to give
ContractNotes(line) ==
    IF line.event = "started-typing"
    THEN <<[display |-> TRUE, guid |-> line.data]>>
    ELSE IF line.event = "stopped-typing"
    THEN <<[display |-> FALSE, guid |-> line.data]>>
    ELSE << >>

\* C22 (as stated): a line that arrives as one chunk gives exactly one
\* typing-indicator with the display flag of its event and the chat identity
\* of its data field, and a line with another event gives none.
C22_LineGivesItsIndicator ==
    \A line \in InboundLines :
        helper.lastRead.tokens = JsonLine(line)
            => /\ ~helper.lastRead.threw
               /\ helper.lastRead.notes = ContractNotes(line)

RECURSIVE NotesLineByLine(_)
NotesLineByLine(lines) ==
    IF lines = << >> THEN << >>
    ELSE OnData(JsonLine(Head(lines))).notes \o NotesLineByLine(Tail(lines))

\* C23 (as stated): however the transport chunks the lines, no read fails
\* and, once everything sent is delivered, the notifications are those of
\* the same lines each read as its own chunk.
C23_ChunkingDoesNotMatter ==
    /\ helper.failures = 0
    /\ helper.wire = << >> => helper.indicators = NotesLineByLine(helper.lines)

---------------------------------------------------------------------------
(* The attributedBody column: values the store holds are read through the
   transformer's from, entity values are written through its to *)

BodyFrame ==
    UNCHANGED <<now, cursor, nextSweep, store, queue, calls, eventCache,
                ownCache, handlers, sent, emitted, suppressed, lastPoll,
                group, helper, boot>>

\* what a typedstream archive holds in a group's values: nothing, an
\* attributed string under its old or its new field name, another object
ArchivedValues ==
    {[class |-> "null", field |-> "none"],
     [class |-> "NSAttributedString", field |-> "value"],
     [class |-> "NSAttributedString", field |-> "string"],
     [class |-> "NSString", field |-> "value"]}

SeqsUpTo(S, n) == UNION {[1..k -> S] : k \in 0..n}

\* the groups decodeAll yields: with a values list, or without one
ArchivedGroups ==
    {[hasValues |-> FALSE, values |-> << >>]}
    \cup {[hasValues |-> TRUE, values |-> v] :
             v \in SeqsUpTo(ArchivedValues, MaxValues)}

\* the column values the store can hold: NULL, bytes that are no archive,
\* and archives
StoredBodies ==
    {[kind |-> k, groups |-> << >>] : k \in {"null", "corrupt"}}
    \cup {[kind |-> "archive", groups |-> g] :
             g \in SeqsUpTo(ArchivedGroups, MaxGroups)}

NullValue == [isNull |-> TRUE, list |-> << >>]

ListValue(list) == [isNull |-> FALSE, list |-> list]

\* Unarchiver.open(dbValue).decodeAll()
DecodeAll(dbValue) ==
    IF dbValue.kind = "archive"
    THEN [threw |-> FALSE, value |-> dbValue.groups]
    ELSE [threw |-> TRUE, value |-> << >>]

\* e && e instanceof NSAttributedString
IsAttributedString(e) == e.class = "NSAttributedString"

\* the map step: value is renamed to string
Renamed(e) == IF e.field = "value" THEN [e EXCEPT !.field = "string"] ELSE e

RECURSIVE MapRenamed(_)
MapRenamed(list) ==
    IF list = << >> THEN << >>
    ELSE <<Renamed(Head(list))>> \o MapRenamed(Tail(list))

\* the body of from's try block
FromTry(dbValue) ==
    LET decoded == DecodeAll(dbValue)
    IN IF decoded.threw THEN [threw |-> TRUE, value |-> NullValue]
       ELSE IF decoded.value = << >> THEN [threw |-> FALSE, value |-> NullValue]
       ELSE IF ~decoded.value[1].hasValues
       THEN [threw |-> TRUE, value |-> NullValue]
       ELSE [threw |-> FALSE,
             value |-> ListValue(MapRenamed(
                          SelectSeq(decoded.value[1].values,
                                    IsAttributedString)))]

\* fault: from has no try and catch
FromUncaught(dbValue) == FromTry(dbValue)

\* AttributedBodyTransformer.from: what the try block returns, or null after
\* the catch has logged
From(dbValue) ==
    LET tried == FromTry(dbValue)
    IN IF tried.threw THEN [threw |-> FALSE, value |-> NullValue] ELSE tried

\* AttributedBodyTransformer.to
To(entityValue) == NullValue

\* a row is loaded: its column value goes through from
LoadBody ==
    /\ body.pc = "stored"
    /\ LET read == From(body.dbValue)
       IN body' = [body EXCEPT !.pc = "read", !.raised = read.threw,
                               !.result = read.value]
    /\ BodyFrame

\* the values an entity's attributedBody can hold
EntityBodies ==
    {NullValue, ListValue(<< >>),
     ListValue(<<[class |-> "NSAttributedString", field |-> "string"]>>)}

\* an entity is saved: the column gets what to makes of the entity's value
SaveBody(entityValue) ==
    /\ body.pc = "read"
    /\ body' = [body EXCEPT !.pc = "saved", !.entity = entityValue,
                            !.column = To(entityValue)]
    /\ BodyFrame

BodyInit ==
    /\ now = StartTime
    /\ cursor = [l \in Listeners |-> StartTime]
    /\ nextSweep = StartTime + PollFrequencyMs
    /\ store = <<>>
    /\ queue = <<>>
    /\ calls = <<>>
    /\ eventCache = <<>>
    /\ ownCache = <<>>
    /\ handlers = {}
    /\ sent = EmptyBag
    /\ emitted = <<>>
    /\ suppressed = {}
    /\ lastPoll = [l \in Listeners |-> "ok"]
    /\ group = StartGroup
    /\ helper = NoHelper
    /\ boot = Started
    /\ \E dbValue \in StoredBodies :
          body = [NoBody EXCEPT !.pc = "stored", !.dbValue = dbValue]

BodyNext ==
    \/ LoadBody
    \/ \E entityValue \in EntityBodies \cup {body.result} : SaveBody(entityValue)

BodySpec == BodyInit /\ [][BodyNext]_vars

\* the stored value is no archive, or an archive whose first group has no
\* values list: decoding raises
DecodingRaises(dbValue) ==
    \/ dbValue.kind # "archive"
    \/ dbValue.groups # << >> /\ ~dbValue.groups[1].hasValues

\* the attributed strings among values, in order, under the field name string
RECURSIVE AttributedStrings(_)
AttributedStrings(values) ==
    IF values = << >> THEN << >>
    ELSE (IF Head(values).class = "NSAttributedString"
          THEN <<[class |-> "NSAttributedString", field |-> "string"]>>
          ELSE << >>)
         \o AttributedStrings(Tail(values))

\* C24: from never raises to its caller; it returns null when decoding
\* raises or yields nothing and otherwise the list of the decoded
\* attributed strings; to gives null for every entity value, so the column
\* is never given a value.
C24_TransformerReadsAndNeverWrites ==
    /\ body.pc \in {"read", "saved"} =>
          /\ ~body.raised
          /\ IF DecodingRaises(body.dbValue) \/ body.dbValue.groups = << >>
             THEN body.result = NullValue
             ELSE body.result =
                     ListValue(AttributedStrings(body.dbValue.groups[1].values))
    /\ body.pc = "saved" => body.column = NullValue

\* an archive whose first group has no values list was read as null, and a
\* list was saved as null
C24_BrokenArchiveReadAsNull ==
    /\ body.pc = "saved"
    /\ body.dbValue.kind = "archive"
    /\ body.dbValue.groups # << >>
    /\ ~body.dbValue.groups[1].hasValues
    /\ body.result = NullValue
    /\ ~body.entity.isNull
    /\ body.column = NullValue

---------------------------------------------------------------------------
(* The send methods of MessageInterface with their checks, the send method
   argument and the identifier-based re-fetch loops *)

\* the send methods a caller can name; "sms" stands for any other value
SendMethods == {"apple-script", "private-api", "sms"}

\* the chat identities a caller can pass: a chat, nothing, the empty string
ChatArguments == {"chatA", Undefined, ""}

\* fault: only an absent chat identity is refused
IsAbsent(chatGuid) == chatGuid = Undefined

\* !chatGuid
Falsy(chatGuid) == chatGuid \in {Undefined, ""}

\* the tryCount at which a re-fetch loop breaks
MessageLookups == 40
ReactionLookups == 20

\* the wait before the next lookup
MessageWaitMs == 250
ReactionWaitMs == 500

\* fault: the two loops' limits are exchanged
LookupLimitExchanged(op) ==
    IF op = "sendReaction" THEN MessageLookups ELSE ReactionLookups

\* if (tryCount >= N) break
LookupLimit(op) ==
    IF op = "sendReaction" THEN ReactionLookups ELSE MessageLookups

\* await waitMs(N)
LookupWaitMs(op) ==
    IF op = "sendReaction" THEN ReactionWaitMs ELSE MessageWaitMs

\* fault: every method falls back on the awaiter's promise
ExhaustedAwaitsPromise(op) == "awaiting"

\* what follows a loop that ended without a row: sendReaction awaits the
\* awaiter's promise, the other methods throw
Exhausted(op) == IF op = "sendReaction" THEN "awaiting" ELSE "threw"

\* iMessageRepo.getMessage(identifier): the row's guid, or 0 for no row
getMessage(identifier) == IF identifier <= Len(store) THEN identifier ELSE 0

\* the identifiers the private channel can report: the guid of the row the
\* messaging application is going to write
Identifiers == 1..MaxRows

\* fault: the primitive is invoked before the awaiter is added
InvokeThenAdd == <<"invoke", "add">>

\* the order of messageManager.add and the send primitive in a send path
AddThenInvoke == <<"add", "invoke">>

\* whether the request is in the queue when the primitive is invoked
QueuedAtInvoke(steps) == steps[1] = "add"

\* a call's record with what the method's own steps add: the send method,
\* the error thrown, whether the attachment was copied, how often a send
\* primitive was invoked and whether the request was queued by then, the
\* identifier reported, the loop's counters and the row returned
ApiCall(op, chatGuid, arg, method, awaiter, status, error) ==
    NewCall(op, chatGuid, arg, now, awaiter, status) @@
    [method |-> method, error |-> error, copied |-> FALSE, invoked |-> 0,
     queuedAtInvoke |-> FALSE, identifier |-> 0, lookups |-> 0,
     tryCount |-> 0, waits |-> 0, waitedMs |-> 0, found |-> 0]

\* the primitive of a path is invoked
Invoked(call, steps) ==
    [call EXCEPT !.invoked = @ + 1, !.queuedAtInvoke = QueuedAtInvoke(steps)]

ApiFrame ==
    UNCHANGED <<now, cursor, nextSweep, store, eventCache, ownCache, handlers,
                sent, emitted, suppressed, lastPoll, group, helper, boot, body>>

\* sendMessageSync up to its first await. privateApi is the outcome of
\* checkPrivateApiStatus (FALSE: it throws)
ApiSendMessageSync(chatGuid, message, method, privateApi) ==
    /\ Len(calls) < MaxSends
    /\ LET id == Len(calls) + 1
           awaiter == MessageAwaiter(id, chatGuid, message, now)
           Call(status, error) ==
               ApiCall("sendMessageSync", chatGuid, message, method, awaiter,
                       status, error)
       IN IF Falsy(chatGuid)
          THEN /\ calls' = Append(calls, [Call("threw", "no-chat")
                                            EXCEPT !.awaiter = NoAwaiter])
               /\ UNCHANGED queue
          ELSE /\ queue' = QueueAdd(queue, awaiter)
               /\ calls' = Append(calls,
                    IF method = "apple-script"
                    THEN Invoked(Call("primitive", "none"), AddThenInvoke)
                    ELSE IF method = "private-api"
                    THEN IF privateApi
                         THEN Invoked(Call("private", "none"), AddThenInvoke)
                         ELSE Call("threw", "private-api-off")
                    ELSE Call("threw", "invalid-method"))
    /\ ApiFrame

\* sendAttachmentSync up to its first await, FileSystem.startMessages()
ApiSendAttachmentSync(chatGuid, attachmentName) ==
    /\ Len(calls) < MaxSends
    /\ LET Call(status, error) ==
               ApiCall("sendAttachmentSync", chatGuid, attachmentName,
                       "apple-script", NoAwaiter, status, error)
       IN calls' = Append(calls,
             IF Falsy(chatGuid) THEN Call("threw", "no-chat")
             ELSE [Call("starting", "none") EXCEPT !.copied = TRUE])
    /\ UNCHANGED queue
    /\ ApiFrame

\* sendAttachmentSync from startMessages() to the await of the primitive
AttachmentProceeds(i) ==
    /\ calls[i].status = "starting"
    /\ LET awaiter == AttachmentAwaiter(i, calls[i].chatGuid, calls[i].arg, now)
       IN /\ queue' = QueueAdd(queue, awaiter)
          /\ calls' = [calls EXCEPT ![i] =
                Invoked([@ EXCEPT !.at = now, !.awaiter = awaiter,
                                  !.status = "primitive"], AddThenInvoke)]
    /\ ApiFrame

\* sendReaction up to the await of the private channel
ApiSendReaction(chatGuid, message, reaction, privateApi) ==
    /\ Len(calls) < MaxSends
    /\ LET arg == [reaction |-> reaction, message |-> message]
           awaiter == MessagePromise(Len(calls) + 1, chatGuid,
                                     ReactionText(reaction, message), FALSE, now)
           Call(status, error) ==
               ApiCall("sendReaction", chatGuid, arg, "private-api", awaiter,
                       status, error)
       IN IF ~privateApi \/ ReactionThrows(message)
          THEN /\ calls' = Append(calls,
                    [Call("threw", IF privateApi THEN "no-text"
                                   ELSE "private-api-off")
                       EXCEPT !.awaiter = NoAwaiter])
               /\ UNCHANGED queue
          ELSE /\ queue' = QueueAdd(queue, awaiter)
               /\ calls' = Append(calls,
                    Invoked(Call("private", "none"), AddThenInvoke))
    /\ ApiFrame

\* unsendMessage and editMessage up to the await of the private channel
ApiChangeMessage(op, messageGuid, privateApi) ==
    /\ Len(calls) < MaxSends
    /\ LET Call(status, error) ==
               [ApiCall(op, "chatA", messageGuid, "private-api", NoAwaiter,
                        status, error) EXCEPT !.identifier = messageGuid]
       IN calls' = Append(calls,
             IF privateApi THEN Invoked(Call("private", "none"), AddThenInvoke)
             ELSE Call("threw", "private-api-off"))
    /\ UNCHANGED queue
    /\ ApiFrame

\* the methods that read result.identifier
ReadsIdentifier(op) == op \in {"sendMessageSync", "sendReaction"}

\* the private channel answers: without an identifier the sending methods
\* throw, otherwise the method goes on to its first lookup
PrivateReturns(i, identifier) ==
    /\ calls[i].status = "private"
    /\ calls' = [calls EXCEPT ![i] =
          IF ReadsIdentifier(@.op)
          THEN IF identifier = 0
               THEN [@ EXCEPT !.status = "threw", !.error = "no-identifier"]
               ELSE [@ EXCEPT !.status = "lookup", !.identifier = identifier]
          ELSE [@ EXCEPT !.status = "lookup"]]
    /\ UNCHANGED queue
    /\ ApiFrame

\* one lookup of a re-fetch loop with what follows it up to the next await:
\* a row ends the method, no row counts a try, and the loop either breaks or
\* waits for the next lookup
Lookup(i) ==
    /\ calls[i].status = "lookup"
    /\ LET call == calls[i]
           retMessage == getMessage(call.identifier)
           looked == [call EXCEPT !.lookups = @ + 1]
           tried == [looked EXCEPT !.tryCount = @ + 1]
       IN calls' = [calls EXCEPT ![i] =
             IF retMessage # 0
             THEN [looked EXCEPT !.status = "returned", !.found = retMessage]
             ELSE IF tried.tryCount >= LookupLimit(call.op)
             THEN [tried EXCEPT !.status = Exhausted(call.op),
                                !.error = IF Exhausted(call.op) = "threw"
                                          THEN "not-found" ELSE @]
             ELSE [tried EXCEPT !.waits = @ + 1,
                                !.waitedMs = @ + LookupWaitMs(call.op)]]
    /\ UNCHANGED queue
    /\ ApiFrame

\* the send methods called with every chat identity and send method, the
\* store, the new-message listener and the sweep
ApiNext ==
    \/ Tick
    \/ \E content \in WrittenContents : StoreInsert("chatA", content, StartTime)
    \/ QueueSweep
    \/ PollNewMessages
    \/ \E chatGuid \in ChatArguments, method \in SendMethods,
          privateApi \in BOOLEAN :
          ApiSendMessageSync(chatGuid, Hello, method, privateApi)
    \/ \E chatGuid \in ChatArguments : ApiSendAttachmentSync(chatGuid, VoiceMp3)
    \/ \E i \in 1..Len(calls) : AttachmentProceeds(i)
    \/ \E t \in ReactionTargets, privateApi \in BOOLEAN :
          ApiSendReaction("chatA", t, "love", privateApi)
    \/ \E i \in 1..Len(calls) : PrimitiveReturns(i)
    \/ \E i \in 1..Len(calls) : PrimitiveFails(i)
    \/ \E i \in 1..Len(calls), identifier \in {0} \cup Identifiers :
          PrivateReturns(i, identifier)
    \/ \E i \in 1..Len(calls) : Lookup(i)

ApiSpec == Init /\ [][ApiNext]_vars

\* the two methods that require a chat identity, called with every chat
\* argument and send method, and the sweep
GuardNext ==
    \/ Tick
    \/ QueueSweep
    \/ \E chatGuid \in ChatArguments, method \in SendMethods,
          privateApi \in BOOLEAN :
          ApiSendMessageSync(chatGuid, Hello, method, privateApi)
    \/ \E chatGuid \in ChatArguments : ApiSendAttachmentSync(chatGuid, VoiceMp3)
    \/ \E i \in 1..Len(calls) : AttachmentProceeds(i)

GuardSpec == Init /\ [][GuardNext]_vars

\* a message whose reaction text can be built
PlainTarget == [text |-> Hello, attachments |-> << >>]

\* the three send paths on a chat, up to the invocation of their primitive,
\* with the store, the new-message listener and the sweep
EntryNext ==
    \/ Tick
    \/ \E content \in WrittenContents : StoreInsert("chatA", content, StartTime)
    \/ QueueSweep
    \/ PollNewMessages
    \/ \E method \in {"apple-script", "private-api"} :
          ApiSendMessageSync("chatA", Hello, method, TRUE)
    \/ ApiSendAttachmentSync("chatA", VoiceMp3)
    \/ \E i \in 1..Len(calls) : AttachmentProceeds(i)
    \/ ApiSendReaction("chatA", PlainTarget, "love", TRUE)

EntrySpec == Init /\ [][EntryNext]_vars

\* the rows written while the private channel's methods run: the text sent
\* and the text of the reaction
LookupContents ==
    {[text |-> t, transferName |-> Null] :
        t \in {Hello, ReactionText("love", PlainTarget)}}

\* one call of a method of the private channel, followed from its start to
\* the end of its re-fetch loop (the loops of two calls share no state), with
\* the store and the new-message listener; the clock stands still
LookupNext ==
    \/ \E content \in LookupContents : StoreInsert("chatA", content, StartTime)
    \/ PollNewMessages
    \/ calls = << >> /\ ApiSendMessageSync("chatA", Hello, "private-api", TRUE)
    \/ calls = << >> /\ ApiSendReaction("chatA", PlainTarget, "love", TRUE)
    \/ \E op \in {"unsendMessage", "editMessage"}, messageGuid \in Identifiers :
          calls = << >> /\ ApiChangeMessage(op, messageGuid, TRUE)
    \/ \E i \in 1..Len(calls), identifier \in {0} \cup Identifiers :
          PrivateReturns(i, identifier)
    \/ \E i \in 1..Len(calls) : Lookup(i)

LookupSpec == Init /\ [][LookupNext]_vars

\* C25: sendMessageSync and sendAttachmentSync called with an absent or
\* empty chat identity throw "No chat GUID provided" before any effect: no
\* request of the call is or was in the queue, no attachment was copied and
\* no send primitive was invoked.
C25_ChatIdentityRequired ==
    \A i \in 1..Len(calls) :
        /\ calls[i].op \in {"sendMessageSync", "sendAttachmentSync"}
        /\ calls[i].chatGuid \in {Undefined, ""}
        => /\ calls[i].status = "threw"
           /\ calls[i].error = "no-chat"
           /\ Occurrences(queue, i) = 0
           /\ calls[i].matched = 0
           /\ calls[i].timedOut = 0
           /\ ~calls[i].copied
           /\ calls[i].invoked = 0

\* sendAttachmentSync was called with the empty string as chat identity and
\* the clock has moved on since
C25_EmptyChatRefused ==
    \E i \in 1..Len(calls) :
        /\ calls[i].op = "sendAttachmentSync"
        /\ calls[i].chatGuid = ""
        /\ calls[i].status = "threw"
        /\ now > calls[i].at


\* the send paths that register a Send Request
SendPaths == {"sendMessageSync", "sendAttachmentSync", "sendReaction"}

\* the sightings a step adds
AddedSightings == {ev \in 1..Len(emitted') : ev > Len(emitted)}

C26_LookupBypassesMatching ==
    \A i \in 1..Len(calls) :
        /\ calls[i].op = "sendMessageSync" /\ calls[i].method = "private-api"
           => calls[i].status # "awaiting"
        /\ calls[i].op \in {"sendMessageSync", "sendReaction"}
           /\ calls[i].status = "returned"
           => /\ calls[i].identifier # 0
              /\ calls[i].found = calls[i].identifier
              /\ store[calls[i].found].guid = calls[i].identifier
        /\ calls[i].op = "sendReaction" /\ calls[i].status = "awaiting"
           => /\ calls[i].lookups = 20
              /\ calls[i].tryCount = 20

\* sendReaction fell back on the promise after 20 empty lookups and the
\* queue resolved it with a row written later
C26_ReactionFellBack ==
    \E i \in 1..Len(calls) :
        /\ calls[i].op = "sendReaction"
        /\ calls[i].status = "awaiting"
        /\ calls[i].tryCount = 20
        /\ calls[i].promise = "resolved"

\* the methods with a re-fetch loop that throw when it ends without a row
ThrowingLoops == {"sendMessageSync", "unsendMessage", "editMessage"}

\* the loop of a call has ended
LoopEnded(call) ==
    \/ call.status \in {"returned", "awaiting"}
    \/ call.status = "threw" /\ call.error = "not-found"

C29_ConfirmedSendLeavesNoRequest ==
    \A i \in 1..Len(calls) :
        /\ calls[i].op \in {"sendMessageSync", "sendReaction"}
        /\ calls[i].status = "returned"
        => /\ Occurrences(queue, i) = 0
           /\ calls[i].timedOut = 0

\* the timeout of a confirmed send was forwarded: the call returned its
\* lookup row, and the sweep rejected its request and sent "message-timeout"
TimeoutAfterConfirmation ==
    \E i \in 1..Len(calls) :
        /\ calls[i].status = "returned"
        /\ calls[i].found \in 1..Len(store)
        /\ calls[i].timedOut = 1
        /\ \E n \in BagToSet(sent) : n.type = "message-timeout"

\* C30 (as stated): a sendMessageSync with a send method other than
\* apple-script and private-api throws "Invalid send method", invokes no
\* send primitive and leaves no request of the call in the queue, so that
\* none is matched or timed out later.
C30_InvalidMethodLeavesNothing ==
    \A i \in 1..Len(calls) :
        calls[i].error = "invalid-method"
        => /\ calls[i].status = "threw"
           /\ calls[i].invoked = 0
           /\ Occurrences(queue, i) = 0
           /\ calls[i].matched = 0
           /\ calls[i].timedOut = 0

\* the request of a call that threw "Invalid send method" was resolved by a
\* row of the store
RejectedCallMatched ==
    \E i \in 1..Len(calls) :
        /\ calls[i].error = "invalid-method"
        /\ calls[i].matched = 1

\* a call with another send method does throw and invokes no primitive
InvalidMethodThrows ==
    \A i \in 1..Len(calls) :
        /\ calls[i].op = "sendMessageSync"
        /\ calls[i].chatGuid \in Chats
        /\ calls[i].method \notin {"apple-script", "private-api"}
        => /\ calls[i].status = "threw"
           /\ calls[i].error = "invalid-method"
           /\ calls[i].invoked = 0


---------------------------------------------------------------------------
(* The helper handle over connects and disconnects, and the lines the typing
   commands write *)

\* C31 (as stated): the handle is set exactly when the most recently
\* accepted connection is still open, and then refers to that connection.
C31_HandleTracksLatestConnection ==
    /\ helper.handle # 0 <=> helper.accepted \in helper.open
    /\ helper.handle # 0 => helper.handle = helper.accepted

\* the handle is never set to anything but the latest connection while that
\* connection is open
HandleIsLatestOpen ==
    helper.handle # 0
    => helper.handle = helper.accepted /\ helper.accepted \in helper.open

\* a command with a chat was dropped while the latest companion was connected
CommandDroppedWhileConnected ==
    \E k \in 1..Len(helper.commands) :
        /\ helper.commands[k].chatGuid = "chatA"
        /\ helper.accepted \in helper.commands[k].open
        /\ helper.commands[k].lines = << >>

\* the line of a command, token by token
ExpectedLine(command) ==
    << <<"{">>, <<"event", command.event>>, <<",">>,
       <<"data", command.chatGuid>>, <<"}">>, <<"\n">> >>

\* C32 (as stated): a typing command issued with a chat while a companion
\* is connected writes exactly one line, the object with its event name and
\* data = the chat followed by a newline; a command with an empty or absent
\* chat writes nothing.
C32_ConnectedCompanionGetsOneLine ==
    \A k \in 1..Len(helper.commands) :
        LET command == helper.commands[k]
        IN /\ command.event \in {"start-typing", "stop-typing"}
           /\ IF command.chatGuid \in {Undefined, ""}
              THEN command.lines = << >>
              ELSE command.open # {}
                   => command.lines = <<ExpectedLine(command)>>

\* the same for the commands issued while the handle was set: one line, as
\* described, goes to the connection the handle refers to; without a chat
\* nothing is written
LineWrittenWhenHandleSet ==
    /\ \A k \in 1..Len(helper.commands) :
          LET command == helper.commands[k]
          IN IF command.chatGuid \in {Undefined, ""} \/ command.handle = 0
             THEN command.lines = << >>
             ELSE /\ command.lines = <<ExpectedLine(command)>>
                  /\ JSONParse(command.lines[1]).value =
                        [event |-> command.event, data |-> command.chatGuid]
    /\ Len(helper.written) =
          Cardinality({k \in 1..Len(helper.commands) :
                          helper.commands[k].lines # << >>})
    /\ \A k \in 1..Len(helper.written) :
          helper.written[k].line = ExpectedLine(
              [event |-> helper.written[k].event,
               chatGuid |-> helper.written[k].data])

====
